---------------------------- MODULE Spec2Model ----------------------------
(***************************************************************************)
(* Diagnostic command layer of the Switchtec management library            *)
(* (lib/diag.c) over the synchronous command channel switchtec_cmd         *)
(* (lib/platform/windows.c).                                               *)
(*                                                                         *)
(* A behaviour is one call of one diagnostic operation by one caller: the  *)
(* operations keep no state between calls except errno, which starts at    *)
(* any value an earlier call can have left.  A call is a walk of pc        *)
(* through the function body; every switchtec_cmd round trip is one step,  *)
(* in which the request is appended to `sent` and the device's answer is   *)
(* chosen nondeterministically.                                            *)
(***************************************************************************)
EXTENDS Integers, Sequences, FiniteSets, TLC

VARIABLES
    gen,       \* generation of the device behind the handle dev
    pc,        \* position of the caller: "idle", a label inside a call, "done"
    op,        \* name of the function called
    arg,       \* arguments of that call
    sent,      \* requests handed to switchtec_cmd during the call, in order
    delays,    \* usleep durations (microseconds) during the call, in order
    nBusy,     \* busy (status 1) responses seen by the running eye_fetch
    rcvd,      \* outcome of each of those switchtec_cmd calls, in order
    rsp,       \* response buffer of the last switchtec_cmd of the call
    loc,       \* local variables of the running function
    ret,       \* value returned by the call (meaningful when pc = "done")
    errno,     \* the C library's errno
    enabled,   \* *enabled of switchtec_diag_loopback_get
    ltssm_speed, \* *ltssm_speed of switchtec_diag_loopback_get
    lane_id,   \* *lane_id of switchtec_diag_eye_fetch
    pixels,    \* the caller's pixel array of switchtec_diag_eye_fetch
    res,       \* *res of the equalization and receiver dumps (or NULL)
    log_count, \* *log_count of switchtec_diag_ltssm_log
    log_data   \* the caller's log_data array of switchtec_diag_ltssm_log

\* the handle's generation and the outputs of the equalization, receiver and
\* LTSSM log operations
dumpVars == <<gen, res, log_count, log_data>>

vars == <<gen, pc, op, arg, sent, rcvd, delays, nBusy, rsp, loc, ret, errno,
          enabled, ltssm_speed, lane_id, pixels, res, log_count, log_data>>

---------------------------------------------------------------------------
(* Bounds of the model *)

\* requests / sleeps / busy answers of one call are counted exactly up to
\* MaxSent; beyond it the logs and the counter saturate
MaxSent == 6
\* largest port_id a caller passes
MaxPort == 1
\* largest capacity pixel_cnt a caller passes to eye_fetch
MaxPixelCnt == 2
\* largest data_count_lo the device reports
MaxCountLo == 2
\* capacity of the cursors arrays of a coefficient dump and of its result
MaxLanes == 2
\* capacity of the steps arrays of a table dump and of its result
MaxSteps == 2
\* largest MRPC command id of the permission table: MRPC_MAX_ID - 1
MaxMrpcId == 33
\* capacity of ber_data in the response of a Gen5 eye read (60 in the library)
MaxPhases == 2

---------------------------------------------------------------------------
(* errno values named by the code *)

EIO == 5
ENOMEM == 12
EBUSY == 16
EINVAL == 22
EPROTO == 71
EINTR == 4

ErrnoVals == {0, EINTR, EIO, ENOMEM, EBUSY, EINVAL, EPROTO}

Min(a, b) == IF a < b THEN a ELSE b

\* a log that keeps its first MaxSent entries
Log(s, e) == IF Len(s) < MaxSent THEN Append(s, e) ELSE s

\* a counter that is exact below MaxSent; from MaxSent on it alternates
\* between MaxSent and MaxSent + 1, both meaning "MaxSent or more", so that
\* an endless loop is an endless behaviour
Bump(n) == IF n <= MaxSent THEN n + 1 ELSE MaxSent

---------------------------------------------------------------------------
(* The command channel: switchtec_cmd *)

\* a device status other than 0, as returned in mres->status
MrpcStatuses == {0, 1}

\* Outcomes of one switchtec_cmd started with errno = e: the value returned
\* and the errno left behind.  calloc failure returns -errno; a failed ioctl
\* returns -EIO; otherwise the device status is returned.
\* mutant: the response is copied out although the ioctl failed
CmdOutcomesCopyAlways(e) ==
    {[ret |-> -ENOMEM, errno |-> ENOMEM, delivered |-> FALSE],
     [ret |-> -EIO, errno |-> e, delivered |-> TRUE]}
    \cup {[ret |-> s, errno |-> e, delivered |-> TRUE] : s \in MrpcStatuses}

CmdOutcomes(e) ==
    {[ret |-> -ENOMEM, errno |-> ENOMEM, delivered |-> FALSE],
     [ret |-> -EIO, errno |-> e, delivered |-> FALSE]}
    \cup {[ret |-> s, errno |-> e, delivered |-> TRUE] : s \in MrpcStatuses}

---------------------------------------------------------------------------
(* The device handle *)

\* generations a handle can have; "GEN3" stands for every generation that is
\* neither Gen4 nor Gen5
Gens == {"GEN3", "GEN4", "GEN5"}

switchtec_is_gen4(g) == g = "GEN4"
switchtec_is_gen5(g) == g = "GEN5"

---------------------------------------------------------------------------
(* Caller inputs *)

PortIds == 0..MaxPort
LoopbackFlags == {"RX_TO_TX", "TX_TO_RX", "LTSSM"}
LtssmSpeeds == {0, 3}

\* state of the per-call variables when a call begins
NoRsp == [none |-> TRUE]
NoLoc == [none |-> TRUE]
Untouched == [k |-> "untouched"]
NoRes == [none |-> TRUE]

Begin(name, a, label) ==
    /\ pc = "idle"
    /\ pc' = label
    /\ op' = name
    /\ arg' = a
    /\ UNCHANGED <<dumpVars, sent, rcvd, delays, nBusy, rsp, loc, ret, errno, enabled,
                   ltssm_speed, lane_id, pixels>>

\* one switchtec_cmd round trip: the request is handed over, the outcome o
\* comes back, and the response buffer is not written when the command was
\* not delivered, holds one of Outs when the device ran it and one of
\* ErrOuts when the device rejected it with a nonzero status
Exchange(req, o, Outs, ErrOuts) ==
    /\ rsp' \in (IF ~o.delivered THEN {rsp}
                 ELSE IF o.ret = 0 THEN Outs ELSE ErrOuts)
    /\ sent' = Log(sent, req)
    /\ rcvd' = Log(rcvd, [ret |-> o.ret,
                          out |-> IF o.delivered THEN rsp' ELSE NoRsp,
                          copied |-> o.delivered])

---------------------------------------------------------------------------
(* switchtec_diag_loopback_set *)

\* mutant: !!enable, the whole mask instead of the mode's own flag
FlagBitWholeMask(enable, flag) == IF enable # {} THEN 1 ELSE 0

\* !!(enable & FLAG)
FlagBit(enable, flag) == IF flag \in enable THEN 1 ELSE 0

IntLoopbackSetReq(a, type, flag) ==
    [enable |-> FlagBit(a.enable, flag),
     type |-> type,
     cmd |-> "MRPC_INT_LOOPBACK",
     sub_cmd |-> "MRPC_LOOPBACK_SET_INT_LOOPBACK",
     port_id |-> a.port_id]

LtssmLoopbackSetReq(a) ==
    [enable |-> FlagBit(a.enable, "LTSSM"),
     type |-> "LTSSM",
     cmd |-> "MRPC_INT_LOOPBACK",
     sub_cmd |-> "MRPC_LOOPBACK_SET_LTSSM_LOOPBACK",
     port_id |-> a.port_id,
     speed |-> a.ltssm_speed]

\* mutant: the result of the request is not tested
LoopbackSetStepNoStop(req, next) ==
    \E o \in CmdOutcomes(errno) :
        /\ Exchange(req, o, {rsp}, {rsp})
        /\ errno' = o.errno
        /\ pc' = next
        /\ ret' = 0
        /\ UNCHANGED <<dumpVars, op, arg, delays, nBusy, loc, enabled, ltssm_speed,
                       lane_id, pixels>>

\* ret = switchtec_cmd(..., NULL, 0); if (ret) return ret; else go on at next
LoopbackSetStep(req, next) ==
    \E o \in CmdOutcomes(errno) :
        /\ Exchange(req, o, {rsp}, {rsp})
        /\ errno' = o.errno
        /\ IF o.ret # 0
             THEN pc' = "done" /\ ret' = o.ret
             ELSE pc' = next /\ ret' = 0
        /\ UNCHANGED <<dumpVars, op, arg, delays, nBusy, loc, enabled, ltssm_speed,
                       lane_id, pixels>>

LoopbackSetCall ==
    \E p \in PortIds, en \in SUBSET LoopbackFlags, sp \in LtssmSpeeds :
        Begin("loopback_set",
              [ltssm_speed |-> sp, enable |-> en, port_id |-> p],
              "lb_set_rx_to_tx")

LoopbackSetRxToTx ==
    /\ pc = "lb_set_rx_to_tx"
    /\ LoopbackSetStep(
           IntLoopbackSetReq(arg, "DIAG_LOOPBACK_RX_TO_TX", "RX_TO_TX"),
           "lb_set_tx_to_rx")

LoopbackSetTxToRx ==
    /\ pc = "lb_set_tx_to_rx"
    /\ LoopbackSetStep(
           IntLoopbackSetReq(arg, "DIAG_LOOPBACK_TX_TO_RX", "TX_TO_RX"),
           "lb_set_ltssm")

LoopbackSetLtssm ==
    /\ pc = "lb_set_ltssm"
    /\ LoopbackSetStep(LtssmLoopbackSetReq(arg), "done")

---------------------------------------------------------------------------
(* switchtec_diag_loopback_get *)

IntLoopbackGetReq(a, type) ==
    [type |-> type,
     cmd |-> "MRPC_INT_LOOPBACK",
     sub_cmd |-> "MRPC_LOOPBACK_GET_INT_LOOPBACK",
     port_id |-> a.port_id]

LtssmLoopbackGetReq(a) ==
    [type |-> "LTSSM",
     cmd |-> "MRPC_INT_LOOPBACK",
     sub_cmd |-> "MRPC_LOOPBACK_GET_LTSSM_LOOPBACK",
     port_id |-> a.port_id]

\* int_out / lt_out as the device fills them
LoopbackOuts == [enabled : {0, 1}, speed : LtssmSpeeds]

\* mutant: en = FLAG, an assignment instead of the or
OrFlagAssign(en, out, flag) == IF out.enabled # 0 THEN {flag} ELSE en

\* if (out.enabled) en |= FLAG;
OrFlag(en, out, flag) == IF out.enabled # 0 THEN en \cup {flag} ELSE en

\* ret = switchtec_cmd(...); if (ret) return ret; if (out.enabled) en |= flag
LoopbackGetStep(req, flag, next) ==
    \E o \in CmdOutcomes(errno) :
        /\ Exchange(req, o, LoopbackOuts, LoopbackOuts)
        /\ errno' = o.errno
        /\ IF o.ret # 0
             THEN pc' = "done" /\ ret' = o.ret /\ loc' = loc
             ELSE /\ pc' = next
                  /\ ret' = 0
                  /\ loc' = [loc EXCEPT !.en = OrFlag(loc.en, rsp', flag)]

LoopbackGetCall ==
    /\ \E p \in PortIds, we \in BOOLEAN, ws \in BOOLEAN :
           /\ pc = "idle"
           /\ pc' = "lb_get_rx_to_tx"
           /\ op' = "loopback_get"
           /\ arg' = [enabled |-> we, ltssm_speed |-> ws, port_id |-> p]
    /\ loc' = [en |-> {}]
    /\ UNCHANGED <<dumpVars, sent, rcvd, delays, nBusy, rsp, ret, errno, enabled,
                   ltssm_speed, lane_id, pixels>>

LoopbackGetRxToTx ==
    /\ pc = "lb_get_rx_to_tx"
    /\ LoopbackGetStep(IntLoopbackGetReq(arg, "DIAG_LOOPBACK_RX_TO_TX"),
                       "RX_TO_TX", "lb_get_tx_to_rx")
    /\ UNCHANGED <<dumpVars, op, arg, delays, nBusy, enabled, ltssm_speed, lane_id,
                   pixels>>

LoopbackGetTxToRx ==
    /\ pc = "lb_get_tx_to_rx"
    /\ LoopbackGetStep(IntLoopbackGetReq(arg, "DIAG_LOOPBACK_TX_TO_RX"),
                       "TX_TO_RX", "lb_get_ltssm")
    /\ UNCHANGED <<dumpVars, op, arg, delays, nBusy, enabled, ltssm_speed, lane_id,
                   pixels>>

\* the last query, then the copies to the non-null output parameters
LoopbackGetLtssm ==
    /\ pc = "lb_get_ltssm"
    /\ LoopbackGetStep(LtssmLoopbackGetReq(arg), "LTSSM", "done")
    /\ enabled' = IF ret' = 0 /\ arg.enabled THEN loc'.en ELSE enabled
    /\ ltssm_speed' = IF ret' = 0 /\ arg.ltssm_speed THEN rsp'.speed
                      ELSE ltssm_speed
    /\ UNCHANGED <<dumpVars, op, arg, delays, nBusy, lane_id, pixels>>

---------------------------------------------------------------------------
(* Eye capture: switchtec_diag_eye_status, switchtec_diag_eye_cmd *)

\* out.status of an eye-observe response: 0 done, 1 busy, 2, 3, and one
\* value outside the named cases
EyeStatuses == {0, 1, 2, 3, 4}

EyeCmdOuts == [status : EyeStatuses]

\* mutant: case 3 is missing from the switch
switchtec_diag_eye_status_no_busy(status, e) ==
    CASE status = 0 -> [ret |-> 0, errno |-> e]
      [] status = 2 -> [ret |-> -1, errno |-> EINVAL]
      [] OTHER -> [ret |-> -1, errno |-> EPROTO]

\* the switch of switchtec_diag_eye_status, entered with errno = e: the
\* value returned and the errno left behind
switchtec_diag_eye_status(status, e) ==
    CASE status = 0 -> [ret |-> 0, errno |-> e]
      [] status = 2 -> [ret |-> -1, errno |-> EINVAL]
      [] status = 3 -> [ret |-> -1, errno |-> EBUSY]
      [] OTHER -> [ret |-> -1, errno |-> EPROTO]

\* switchtec_diag_eye_cmd on the channel outcome o and response buffer out
switchtec_diag_eye_cmd(o, out) ==
    IF o.ret # 0
      THEN [ret |-> o.ret, errno |-> o.errno]
      ELSE switchtec_diag_eye_status(out.status, o.errno)

\* microseconds of the settle delay after start, cancel and run
SettleDelayUs == 200000
\* microseconds slept before a fetch is retried
RetrySleepUs == 5000

\* errno after usleep, which may fail with EINTR
UsleepErrnos(e) == {e, EINTR}

\* mutant: errno is not restored after the sleep
SaveRestoreErrnoLost(err, after) == after

\* err = errno; usleep(...); errno = err;  -- errno after the three
\* statements, where `after` is what usleep left in errno
SaveRestoreErrno(err, after) == err

\* the tail shared by start, cancel and run: the delay, then return ret
SettleAndReturn ==
    \E after \in UsleepErrnos(errno) :
        /\ delays' = Log(delays, SettleDelayUs)
        /\ errno' = SaveRestoreErrno(errno, after)
        /\ ret' = loc.ret
        /\ pc' = "done"
        /\ UNCHANGED <<dumpVars, op, arg, sent, rcvd, nBusy, rsp, loc, enabled,
                       ltssm_speed, lane_id, pixels>>

\* one request through switchtec_diag_eye_cmd, its result kept in ret
EyeCmdStep(req, next) ==
    \E o \in CmdOutcomes(errno) :
        /\ Exchange(req, o, EyeCmdOuts, EyeCmdOuts)
        /\ errno' = switchtec_diag_eye_cmd(o, rsp').errno
        /\ loc' = [ret |-> switchtec_diag_eye_cmd(o, rsp').ret]
        /\ pc' = next
        /\ UNCHANGED <<dumpVars, op, arg, delays, nBusy, enabled, ltssm_speed,
                       lane_id, pixels>>

---------------------------------------------------------------------------
(* switchtec_diag_eye_set_mode *)

EyeDataModes == {"RAW", "RATIO"}

EyeSetModeCall ==
    \E m \in EyeDataModes :
        Begin("eye_set_mode", [mode |-> m], "eye_set_mode_cmd")

EyeSetModeCmd ==
    /\ pc = "eye_set_mode_cmd"
    /\ EyeCmdStep([cmd |-> "MRPC_EYE_OBSERVE",
                   sub_cmd |-> "MRPC_EYE_OBSERVE_SET_DATA_MODE",
                   data_mode |-> arg.mode], "done")
    /\ ret' = loc'.ret

---------------------------------------------------------------------------
(* switchtec_diag_eye_start, switchtec_diag_eye_cancel *)

\* lane masks a caller passes: four words
CallerLaneMasks == {<<4, 0, 0, 0>>, <<0, 1, 0, 0>>}
XRanges == {[start |-> 0, end |-> 63, step |-> 1]}
YRanges == {[start |-> -255, end |-> 255, step |-> 5]}
StepIntervals == {1, 20}

EyeStartCall ==
    \E m \in CallerLaneMasks, x \in XRanges, y \in YRanges,
       si \in StepIntervals :
        Begin("eye_start",
              [lane_mask |-> m, x_range |-> x, y_range |-> y,
               step_interval |-> si],
              "eye_start_cmd")

EyeStartCmd ==
    /\ pc = "eye_start_cmd"
    /\ EyeCmdStep([cmd |-> "MRPC_EYE_OBSERVE",
                   sub_cmd |-> "MRPC_EYE_OBSERVE_START",
                   lane_mask |-> arg.lane_mask,
                   step_interval |-> arg.step_interval,
                   x_start |-> arg.x_range.start,
                   y_start |-> arg.y_range.start,
                   x_end |-> arg.x_range.end,
                   y_end |-> arg.y_range.end,
                   x_step |-> arg.x_range.step,
                   y_step |-> arg.y_range.step],
                  "eye_start_delay")
    /\ UNCHANGED ret

EyeStartDelay ==
    /\ pc = "eye_start_delay"
    /\ SettleAndReturn

EyeCancelCall ==
    Begin("eye_cancel", [none |-> TRUE], "eye_cancel_cmd")

EyeCancelCmd ==
    /\ pc = "eye_cancel_cmd"
    /\ EyeCmdStep([cmd |-> "MRPC_EYE_OBSERVE",
                   sub_cmd |-> "MRPC_EYE_OBSERVE_CANCEL"],
                  "eye_cancel_delay")
    /\ UNCHANGED ret

EyeCancelDelay ==
    /\ pc = "eye_cancel_delay"
    /\ SettleAndReturn

---------------------------------------------------------------------------
(* switchtec_gen5_diag_eye_run *)

CaptureDepths == {10, 24}

Gen5EyeRunCall ==
    \E m \in CallerLaneMasks, d \in CaptureDepths :
        Begin("gen5_eye_run", [lane_mask |-> m, capture_depth |-> d],
              "gen5_eye_run_cmd")

\* ret = switchtec_cmd(dev, MRPC_GEN5_EYE_CAPTURE, &in, ..., &out, ...)
Gen5EyeRunCmd ==
    /\ pc = "gen5_eye_run_cmd"
    /\ \E o \in CmdOutcomes(errno) :
           /\ Exchange([cmd |-> "MRPC_GEN5_EYE_CAPTURE",
                        sub_cmd |-> "MRPC_EYE_CAP_RUN_GEN5",
                        lane_mask |-> arg.lane_mask,
                        capture_depth |-> arg.capture_depth,
                        timeout_disable |-> 1],
                       o, {[out |-> 0]}, {[out |-> 0]})
           /\ errno' = o.errno
           /\ loc' = [ret |-> o.ret]
           /\ pc' = "gen5_eye_run_delay"
    /\ UNCHANGED <<dumpVars, op, arg, delays, nBusy, ret, enabled, ltssm_speed,
                   lane_id, pixels>>

Gen5EyeRunDelay ==
    /\ pc = "gen5_eye_run_delay"
    /\ SettleAndReturn

---------------------------------------------------------------------------
(* switchtec_diag_eye_fetch *)

\* A 32-bit little-endian wire field is its four bytes, lowest first.
W0 == <<0, 0, 0, 0>>
W1 == <<2, 1, 0, 0>>
W2 == <<0, 0, 3, 0>>

\* le32toh: the host value of a little-endian wire field
le32toh(w) == w[1] + 256 * w[2] + 65536 * w[3] + 16777216 * w[4]

\* mutant: the two halves swapped
hi_lo_to_uint64_swapped(lo, hi) == <<le32toh(hi), le32toh(lo)>>

\* hi_lo_to_uint64: ret = le32toh(hi); ret <<= 32; ret |= le32toh(lo).
\* A 64-bit value is kept as the pair <<low 32 bits, high 32 bits>>, that
\* is the number high * 2^32 + low.
hi_lo_to_uint64(lo, hi) == <<le32toh(lo), le32toh(hi)>>

\* if (samples): a 64-bit value is nonzero when either half is
NonZero64(v) == v[1] # 0 \/ v[2] # 0

\* ffs(3): 1 + index of the lowest set bit, 0 for 0
RECURSIVE ffs(_)
ffs(x) == IF x = 0 THEN 0
          ELSE IF x % 2 = 1 THEN 1
          ELSE 1 + ffs(x \div 2)

\* for (i = 0; i < 4; i++) { *lane_id = ffs(out.lane_mask[i]);
\*                           if (*lane_id) break; }
\* entered at word i (the C index i - 1): the value left in *lane_id
RECURSIVE LaneLoop(_, _)
LaneLoop(mask, i) ==
    LET l == ffs(mask[i]) IN
    IF l # 0 \/ i = 4 THEN l ELSE LaneLoop(mask, i + 1)

\* data_count = out.data_count_lo | ((int)out.data_count_hi << 8), both
\* fields one byte wide
DataCount(out) == out.data_count_lo + 256 * out.data_count_hi

\* raw[i] records, restricted to: samples 0, low half only, high half only
RawRecords ==
    {[error_cnt_lo |-> W1, error_cnt_hi |-> W0,
      sample_cnt_lo |-> W0, sample_cnt_hi |-> W0],
     [error_cnt_lo |-> W1, error_cnt_hi |-> W0,
      sample_cnt_lo |-> W2, sample_cnt_hi |-> W0],
     [error_cnt_lo |-> W0, error_cnt_hi |-> W1,
      sample_cnt_lo |-> W0, sample_cnt_hi |-> W2]}

RatioRecords == {[ratio |-> W0], [ratio |-> W2]}

\* the indices of the records of the wire buffer, raw[] or ratio[] of struct
\* switchtec_diag_port_eye_fetch (62 and 496 records in the library, here as
\* many as MaxPixelCnt, one less than the largest array of a caller)
WireIdx == 0..(MaxPixelCnt - 1)

\* lane masks the device reports
LaneMasks == {<<4, 0, 0, 0>>, <<0, 6, 0, 1>>}

\* a response with a status other than 0 carries no data
FetchStatusOut(s) ==
    [status |-> s, data_mode |-> "RAW", lane_mask |-> <<0, 0, 0, 0>>,
     data_count_lo |-> 0, data_count_hi |-> 0,
     data |-> [i \in WireIdx |->
                  [error_cnt_lo |-> W0, error_cnt_hi |-> W0,
                   sample_cnt_lo |-> W0, sample_cnt_hi |-> W0]]]

\* struct switchtec_diag_port_eye_fetch as the device fills it: with status
\* 0 the records are those of the reported data mode
FetchOuts ==
    {r \in [status : {0},
            data_mode : EyeDataModes,
            lane_mask : LaneMasks,
            data_count_lo : 0..MaxCountLo,
            data_count_hi : {0, 1},
            data : [WireIdx -> RawRecords \cup RatioRecords]] :
        \A i \in WireIdx :
            r.data[i] \in (IF r.data_mode = "RAW" THEN RawRecords
                           ELSE RatioRecords)}
    \cup {FetchStatusOut(s) : s \in EyeStatuses \ {0}}

\* a fetch the device rejected brings no eye data
FetchErrOuts == {r \in FetchOuts : r.status # 0}

\* the value written to pixels[i] by the body of the decode loop; old is
\* the entry's content before
DecodePixel(out, i, old) ==
    CASE out.data_mode = "RAW" ->
           LET errors == hi_lo_to_uint64(out.data[i].error_cnt_lo,
                                         out.data[i].error_cnt_hi)
               samples == hi_lo_to_uint64(out.data[i].sample_cnt_lo,
                                          out.data[i].sample_cnt_hi)
           IN IF NonZero64(samples)
                THEN [k |-> "quot", num |-> errors, den |-> samples]
                ELSE [k |-> "nan"]
      [] out.data_mode = "RATIO" ->
           [k |-> "ratio", num |-> le32toh(out.data[i].ratio), den |-> 65536]
      [] OTHER -> old

\* mutant: i < pixel_cnt alone bounds the loop
LoopEndCapacityOnly(data_count, pixel_cnt) == pixel_cnt

\* for (i = 0; i < data_count && i < pixel_cnt; i++): the loop's bound
LoopEnd(data_count, pixel_cnt) == Min(data_count, pixel_cnt)

\* the indices the decode loop reads behind the last record of the buffer
BeyondIdx(out, pixel_cnt) ==
    {i \in 0..(LoopEnd(DataCount(out), pixel_cnt) - 1) : i \notin WireIdx}

\* what a pixel computed from the bytes behind the buffer can be
IndeterminatePixels ==
    {[k |-> "nan"], [k |-> "ratio", num |-> 0, den |-> 65536]}

\* the pixel array after the decode loop; g gives the pixels computed from
\* the bytes behind the buffer
DecodePixels(out, pixel_cnt, old, g) ==
    [i \in DOMAIN old |->
        IF i < LoopEnd(DataCount(out), pixel_cnt)
          THEN (IF i \in WireIdx THEN DecodePixel(out, i, old[i])
                ELSE g[i])
          ELSE old[i]]

FetchReq == [cmd |-> "MRPC_EYE_OBSERVE", sub_cmd |-> "MRPC_EYE_OBSERVE_FETCH"]

\* the caller's array has pixel_cnt entries; one more entry of the caller's
\* memory behind it is modelled
EyeFetchCall ==
    /\ \E n \in 0..(MaxPixelCnt + 1) :
           /\ pc = "idle"
           /\ pc' = "eye_fetch_cmd"
           /\ op' = "eye_fetch"
           /\ arg' = [pixel_cnt |-> n]
           /\ pixels' = [i \in 0..n |-> Untouched]
    /\ UNCHANGED <<dumpVars, sent, rcvd, delays, nBusy, rsp, loc, ret, errno, enabled,
                   ltssm_speed, lane_id>>

\* mutant: the retry is taken on status 3 instead of status 1
IsBusyStatus3(out) == out.status = 3

\* mutant: no busy test, every response goes to the status switch
IsBusyNever(out) == FALSE

\* if (out.status == 1): the test that sends the loop back to retry
IsBusy(out) == out.status = 1

\* retry: the request is delivered and answered busy; usleep(5000); goto retry
EyeFetchRetry ==
    /\ pc = "eye_fetch_cmd"
    /\ \E o \in CmdOutcomes(errno) :
           /\ o.ret = 0
           /\ Exchange(FetchReq, o, FetchOuts, FetchErrOuts)
           /\ IsBusy(rsp')
           /\ loc' = [ret |-> o.ret]
           /\ nBusy' = Bump(nBusy)
           /\ delays' = Log(delays, RetrySleepUs)
           /\ errno' \in UsleepErrnos(o.errno)
           /\ pc' = "eye_fetch_cmd"
    /\ UNCHANGED <<dumpVars, op, arg, ret, enabled, ltssm_speed, lane_id, pixels>>

\* the request fails (if (ret) return ret), or the status of a response that
\* is not busy is an error (ret = switchtec_diag_eye_status(); if (ret) ...)
EyeFetchError ==
    /\ pc = "eye_fetch_cmd"
    /\ \E o \in CmdOutcomes(errno) :
           /\ Exchange(FetchReq, o, FetchOuts, FetchErrOuts)
           /\ IF o.ret # 0 THEN TRUE ELSE ~IsBusy(rsp')
           /\ switchtec_diag_eye_cmd(o, rsp').ret # 0
           /\ loc' = [ret |-> switchtec_diag_eye_cmd(o, rsp').ret]
           /\ errno' = switchtec_diag_eye_cmd(o, rsp').errno
           /\ ret' = switchtec_diag_eye_cmd(o, rsp').ret
           /\ pc' = "done"
    /\ UNCHANGED <<dumpVars, op, arg, delays, nBusy, enabled, ltssm_speed, lane_id,
                   pixels>>

\* a response with status 0: lane id, pixel decode, return data_count
EyeFetchDone ==
    /\ pc = "eye_fetch_cmd"
    /\ \E o \in CmdOutcomes(errno) :
           /\ o.ret = 0
           /\ Exchange(FetchReq, o, FetchOuts, FetchErrOuts)
           /\ ~IsBusy(rsp')
           /\ switchtec_diag_eye_status(rsp'.status, o.errno).ret = 0
           /\ loc' = [ret |-> 0]
           /\ errno' = switchtec_diag_eye_status(rsp'.status, o.errno).errno
           /\ lane_id' = LaneLoop(rsp'.lane_mask, 1)
           /\ \E g \in [BeyondIdx(rsp', arg.pixel_cnt) ->
                          IndeterminatePixels] :
                  pixels' = DecodePixels(rsp', arg.pixel_cnt, pixels, g)
           /\ ret' = DataCount(rsp')
           /\ pc' = "done"
    /\ UNCHANGED <<dumpVars, op, arg, delays, nBusy, enabled, ltssm_speed>>

---------------------------------------------------------------------------
(* Port equalization dumps: arguments, responses and results *)

\* enum switchtec_diag_end and enum switchtec_diag_link as a caller can pass
\* them; "OTHER" stands for every value that is none of the enumerators
Ends == {"LOCAL", "FAR_END", "OTHER"}
Links == {"CURRENT", "PREVIOUS", "OTHER"}

\* a null pointer passed for res
Null == [null |-> TRUE]

\* mutant: the pointer is not tested
IsNullNever(r) == FALSE

\* if (!res)
IsNull(r) == r = Null

\* the strategy a dispatcher runs:
\*   if (switchtec_is_gen5(dev)) ... else if (switchtec_is_gen4(dev)) ...
\* mutant: everything that is not Gen5 is handled as Gen4
EqStrategyElseGen4(g) == IF switchtec_is_gen5(g) THEN "gen5" ELSE "gen4"

EqStrategy(g) ==
    IF switchtec_is_gen5(g) THEN "gen5"
    ELSE IF switchtec_is_gen4(g) THEN "gen4"
    ELSE "none"

\* indices of the cursors arrays of the response and of *res
LaneIdx == 0..(MaxLanes - 1)
\* indices of the steps arrays of the response and of *res
StepIdx == 0..(MaxSteps - 1)

\* values of the one-byte count field of a response: the in-range counts
\* and the first one past the arrays
LaneCountField == 0..MaxLanes
StepCountField == 0..(MaxSteps + 1)

CursorPairs == {[pre |-> 1, post |-> 2], [pre |-> 7, post |-> 0]}

\* the coefficient dump as the device fills it; the count field is lane_id
\* in struct switchtec_diag_port_eq_status_out (Gen4) and lane_cnt in the
\* Gen5 structures
CoeffOuts == [count : LaneCountField, cursors : [LaneIdx -> CursorPairs]]

StepRecords ==
    {[speed |-> 4, pre_cursor |-> 1, post_cursor |-> 2, fom |-> 3,
      pre_cursor_up |-> 1, post_cursor_up |-> 1, error_status |-> 0,
      active_status |-> 1],
     [speed |-> 5, pre_cursor |-> 6, post_cursor |-> 0, fom |-> 9,
      pre_cursor_up |-> 0, post_cursor_up |-> 1, error_status |-> 1,
      active_status |-> 0]}

TableOuts == [lane_id : {2}, step_cnt : StepCountField,
              steps : [StepIdx -> StepRecords]]

FslfOuts == {[fs |-> 40, lf |-> 12], [fs |-> 63, lf |-> 20]}

\* *res as the caller hands it in; `beyond` collects the indices at or past
\* the end of the arrays that the copy loop reads and writes
FreshCoeff == [cursors |-> [i \in LaneIdx |-> Untouched], lane_cnt |-> -1,
               beyond |-> {}]
FreshTable == [lane_id |-> -1, step_cnt |-> -1,
               steps |-> [i \in StepIdx |-> Untouched], beyond |-> {}]
FreshFslf == [fs |-> -1, lf |-> -1]

\* the content of a request field that the code never assigns
IndeterminateBytes == {0, 255}

\* entry of a public equalization function
EqBegin(name, a, r, label) ==
    /\ pc = "idle"
    /\ pc' = label
    /\ op' = name
    /\ arg' = a
    /\ res' = r
    /\ UNCHANGED <<gen, log_count, log_data, sent, rcvd, delays, nBusy, rsp,
                   loc, ret, errno, enabled, ltssm_speed, lane_id, pixels>>

\* return without a request:  errno = e; return r;
EqReturn(r, e) ==
    /\ ret' = r
    /\ errno' = e
    /\ pc' = "done"
    /\ UNCHANGED <<dumpVars, op, arg, sent, rcvd, delays, nBusy, rsp, loc,
                   enabled, ltssm_speed, lane_id, pixels>>

\* no strategy for the handle: the dispatcher returns its initial ret = -1
EqUnsupported ==
    /\ EqStrategy(gen) = "none"
    /\ EqReturn(-1, errno)

\* one request of an equalization or receiver dump and the tail of the
\* function: a failed request returns (ret itself when passRet, else -1), a
\* successful one returns 0.  A rejected command's response carries no dump.
EqExchange(req, Outs, passRet) ==
    \E o \in CmdOutcomes(errno) :
        /\ Exchange(req, o, Outs, {NoRsp})
        /\ errno' = o.errno
        /\ ret' = (IF o.ret = 0 THEN 0 ELSE IF passRet THEN o.ret ELSE -1)
        /\ pc' = "done"
        /\ UNCHANGED <<gen, log_count, log_data, op, arg, delays, nBusy, loc,
                       enabled, ltssm_speed, lane_id, pixels>>

\* *res after the request: written from the response out by the copy that
\* follows a successful request, as it was after a failed one
Stored(r, stored) == IF ret' = 0 THEN stored ELSE r

---------------------------------------------------------------------------
(* switchtec_diag_port_eq_tx_coeff *)

\* mutant: the reported count is taken as the number of lanes
LaneCntNoBias(count) == count

\* res->lane_cnt = out.lane_id + 1   (Gen5: loc_out->lane_cnt + 1)
LaneCnt(count) == count + 1

\* res->lane_cnt = ...; for (i = 0; i < res->lane_cnt; i++)
\*     res->cursors[i] = out.cursors[i]  (pre and post);
\* the loop has no other bound, so indices from MaxLanes on leave both arrays.
\* (A null r does not get here: res is tested on entry.)
StoreCoeff(r, out) ==
    IF r = Null THEN r
    ELSE [cursors |-> [i \in LaneIdx |->
                          IF i < LaneCnt(out.count)
                            THEN [pre |-> out.cursors[i].pre,
                                  post |-> out.cursors[i].post]
                            ELSE r.cursors[i]],
          lane_cnt |-> LaneCnt(out.count),
          beyond |-> {i \in 0..(LaneCnt(out.count) - 1) : i \notin LaneIdx}]

PortEqTxCoeffCall ==
    \E p \in PortIds, e \in Ends, l \in Links, r \in {Null, FreshCoeff} :
        EqBegin("port_eq_tx_coeff", [port_id |-> p, end |-> e, link |-> l],
                r, "eq_tx_coeff")

PortEqTxCoeffUnsupported ==
    /\ pc = "eq_tx_coeff"
    /\ EqUnsupported

\* the request built in the malloc'ed buffer; prev_rate is assigned only for
\* the previous link and is pr, whatever the buffer held, otherwise
Gen5CoeffReq(a, pr) ==
    [lane_id |-> 0,
     cmd |-> "MRPC_PORT_EQ_STATUS",
     sub_cmd |-> IF a.end = "LOCAL"
                   THEN "MRPC_GEN5_PORT_EQ_LOCAL_TX_COEFF_DUMP"
                   ELSE "MRPC_GEN5_PORT_EQ_FAR_END_TX_COEFF_DUMP",
     op_type |-> "DIAG_PORT_EQ_STATUS_OP_PER_PORT",
     phys_port_id |-> a.port_id,
     dump_type |-> IF a.link = "PREVIOUS" THEN "LANE_EQ_DUMP_TYPE_PREV"
                   ELSE "LANE_EQ_DUMP_TYPE_CURR",
     prev_rate |-> IF a.link = "PREVIOUS" THEN "PCIE_LINK_RATE_GEN5" ELSE pr]

\* switchtec_gen5_diag_port_eq_tx_coeff
Gen5PortEqTxCoeff ==
    /\ pc = "eq_tx_coeff"
    /\ EqStrategy(gen) = "gen5"
    /\ \/ /\ IsNull(res)
          /\ EqReturn(-1, -EINVAL)
       \/ \* malloc returns NULL
          /\ ~IsNull(res)
          /\ EqReturn(-1, -ENOMEM)
       \/ \* neither end: errno = -EINVAL; goto end; with ret still 0
          /\ ~IsNull(res)
          /\ arg.end \notin {"LOCAL", "FAR_END"}
          /\ EqReturn(0, -EINVAL)
       \/ /\ ~IsNull(res)
          /\ arg.end \in {"LOCAL", "FAR_END"}
          /\ \E pr \in (IF arg.link = "PREVIOUS" THEN {0}
                        ELSE IndeterminateBytes) :
                 /\ EqExchange(Gen5CoeffReq(arg, pr), CoeffOuts, TRUE)
                 /\ res' = Stored(res, StoreCoeff(res, rsp'))

Gen4CoeffReq(a) ==
    IF a.link = "CURRENT"
      THEN [cmd |-> "MRPC_PORT_EQ_STATUS",
            sub_cmd |-> IF a.end = "LOCAL"
                          THEN "MRPC_PORT_EQ_LOCAL_TX_COEFF_DUMP"
                          ELSE "MRPC_PORT_EQ_FAR_END_TX_COEFF_DUMP",
            port_id |-> a.port_id,
            op_type |-> "DIAG_PORT_EQ_STATUS_OP_PER_PORT"]
      ELSE [cmd |-> "MRPC_EXT_RCVR_OBJ_DUMP",
            sub_cmd |-> IF a.end = "LOCAL"
                          THEN "MRPC_EXT_RCVR_OBJ_DUMP_LOCAL_TX_COEFF_PREV"
                          ELSE "MRPC_EXT_RCVR_OBJ_DUMP_FAR_END_TX_COEFF_PREV",
            port_id |-> a.port_id,
            op_type |-> "DIAG_PORT_EQ_STATUS_OP_PER_PORT"]

\* switchtec_gen4_diag_port_eq_tx_coeff
Gen4PortEqTxCoeff ==
    /\ pc = "eq_tx_coeff"
    /\ EqStrategy(gen) = "gen4"
    /\ \/ /\ IsNull(res)
          /\ EqReturn(-1, -EINVAL)
       \/ /\ ~IsNull(res)
          /\ \/ arg.end \notin {"LOCAL", "FAR_END"}
             \/ arg.link \notin {"CURRENT", "PREVIOUS"}
          /\ EqReturn(-1, -EINVAL)
       \/ /\ ~IsNull(res)
          /\ arg.end \in {"LOCAL", "FAR_END"}
          /\ arg.link \in {"CURRENT", "PREVIOUS"}
          /\ EqExchange(Gen4CoeffReq(arg), CoeffOuts, FALSE)
          /\ res' = Stored(res, StoreCoeff(res, rsp'))

---------------------------------------------------------------------------
(* switchtec_diag_port_eq_tx_table *)

\* res->lane_id = out.lane_id; res->step_cnt = out.step_cnt;
\* for (i = 0; i < res->step_cnt; i++) res->steps[i] = out.steps[i], field
\* by field; the Gen5 strategy stores 0 in fom, pre_cursor_up and
\* post_cursor_up.  The loop has no other bound.
StoreTable(r, out, zeroed) ==
    IF r = Null THEN r
    ELSE [lane_id |-> out.lane_id,
          step_cnt |-> out.step_cnt,
          steps |-> [i \in StepIdx |->
                        IF i < out.step_cnt
                          THEN [speed |-> out.steps[i].speed,
                                pre_cursor |-> out.steps[i].pre_cursor,
                                post_cursor |-> out.steps[i].post_cursor,
                                fom |-> IF zeroed THEN 0
                                        ELSE out.steps[i].fom,
                                pre_cursor_up |->
                                    IF zeroed THEN 0
                                    ELSE out.steps[i].pre_cursor_up,
                                post_cursor_up |->
                                    IF zeroed THEN 0
                                    ELSE out.steps[i].post_cursor_up,
                                error_status |-> out.steps[i].error_status,
                                active_status |-> out.steps[i].active_status]
                          ELSE r.steps[i]],
          beyond |-> {i \in 0..(out.step_cnt - 1) : i \notin StepIdx}]

StoreTableGen5(r, out) == StoreTable(r, out, TRUE)
StoreTableGen4(r, out) == StoreTable(r, out, FALSE)

PortEqTxTableCall ==
    \E p \in PortIds, l \in Links, r \in {Null, FreshTable} :
        EqBegin("port_eq_tx_table", [port_id |-> p, link |-> l], r,
                "eq_tx_table")

PortEqTxTableUnsupported ==
    /\ pc = "eq_tx_table"
    /\ EqUnsupported

\* dump_type is CURR unless link == SWITCHTEC_DIAG_LINK_PREVIOUS
Gen5TableReq(a) ==
    [cmd |-> "MRPC_PORT_EQ_STATUS",
     sub_cmd |-> "MRPC_GEN5_PORT_EQ_FAR_END_TX_EQ_TABLE_DUMP",
     port_id |-> a.port_id,
     dump_type |-> IF a.link = "PREVIOUS" THEN "LANE_EQ_DUMP_TYPE_PREV"
                   ELSE "LANE_EQ_DUMP_TYPE_CURR",
     prev_rate |-> IF a.link = "PREVIOUS" THEN "PCIE_LINK_RATE_GEN5" ELSE 0]

\* switchtec_gen5_diag_port_eq_tx_table
Gen5PortEqTxTable ==
    /\ pc = "eq_tx_table"
    /\ EqStrategy(gen) = "gen5"
    /\ \/ /\ IsNull(res)
          /\ EqReturn(-1, -EINVAL)
       \/ /\ ~IsNull(res)
          /\ EqExchange(Gen5TableReq(arg), TableOuts, FALSE)
          /\ res' = Stored(res, StoreTableGen5(res, rsp'))

Gen4TableReq(a) ==
    IF a.link = "CURRENT"
      THEN [cmd |-> "MRPC_PORT_EQ_STATUS",
            sub_cmd |-> "MRPC_PORT_EQ_FAR_END_TX_EQ_TABLE_DUMP",
            port_id |-> a.port_id]
      ELSE [cmd |-> "MRPC_EXT_RCVR_OBJ_DUMP",
            sub_cmd |-> "MRPC_EXT_RCVR_OBJ_DUMP_EQ_TX_TABLE_PREV",
            port_id |-> a.port_id]

\* switchtec_gen4_diag_port_eq_tx_table
Gen4PortEqTxTable ==
    /\ pc = "eq_tx_table"
    /\ EqStrategy(gen) = "gen4"
    /\ \/ /\ IsNull(res)
          /\ EqReturn(-1, -EINVAL)
       \/ /\ ~IsNull(res)
          /\ arg.link \notin {"CURRENT", "PREVIOUS"}
          /\ EqReturn(-1, -EINVAL)
       \/ /\ ~IsNull(res)
          /\ arg.link \in {"CURRENT", "PREVIOUS"}
          /\ EqExchange(Gen4TableReq(arg), TableOuts, FALSE)
          /\ res' = Stored(res, StoreTableGen4(res, rsp'))

---------------------------------------------------------------------------
(* switchtec_diag_port_eq_tx_fslf *)

\* lane_id arguments of the per-lane dumps
LaneArgs == {0, 3}

\* res->fs = out.fs; res->lf = out.lf;
StoreFslf(r, out) ==
    IF r = Null THEN r ELSE [fs |-> out.fs, lf |-> out.lf]

PortEqTxFslfCall ==
    \E p \in PortIds, n \in LaneArgs, e \in Ends, l \in Links,
       r \in {Null, FreshFslf} :
        EqBegin("port_eq_tx_fslf",
                [lane_id |-> n, port_id |-> p, end |-> e, link |-> l], r,
                "eq_tx_fslf")

PortEqTxFslfUnsupported ==
    /\ pc = "eq_tx_fslf"
    /\ EqUnsupported

\* the request in the uninitialized local fslf.in: dump_type is CURR for the
\* current link and PREV for every other value of link; prev_rate is
\* assigned only with PREV and is pr, whatever the stack held, otherwise
Gen5FslfReq(a, pr) ==
    [lane_id |-> a.lane_id,
     cmd |-> "MRPC_PORT_EQ_STATUS",
     sub_cmd |-> IF a.end = "LOCAL"
                   THEN "MRPC_GEN5_PORT_EQ_LOCAL_TX_FSLF_DUMP"
                   ELSE "MRPC_GEN5_PORT_EQ_FAR_END_TX_FSLF_DUMP",
     port_id |-> a.port_id,
     dump_type |-> IF a.link = "CURRENT" THEN "LANE_EQ_DUMP_TYPE_CURR"
                   ELSE "LANE_EQ_DUMP_TYPE_PREV",
     prev_rate |-> IF a.link = "CURRENT" THEN pr ELSE "PCIE_LINK_RATE_GEN5"]

\* switchtec_gen5_diag_port_eq_tx_fslf
Gen5PortEqTxFslf ==
    /\ pc = "eq_tx_fslf"
    /\ EqStrategy(gen) = "gen5"
    /\ \/ /\ IsNull(res)
          /\ EqReturn(-1, -EINVAL)
       \/ /\ ~IsNull(res)
          /\ arg.end \notin {"LOCAL", "FAR_END"}
          /\ EqReturn(-1, -EINVAL)
       \/ /\ ~IsNull(res)
          /\ arg.end \in {"LOCAL", "FAR_END"}
          /\ \E pr \in (IF arg.link = "CURRENT" THEN IndeterminateBytes
                        ELSE {0}) :
                 /\ EqExchange(Gen5FslfReq(arg, pr), FslfOuts, FALSE)
                 /\ res' = Stored(res, StoreFslf(res, rsp'))

Gen4FslfReq(a) ==
    IF a.link = "CURRENT"
      THEN [lane_id |-> a.lane_id,
            cmd |-> "MRPC_PORT_EQ_STATUS",
            sub_cmd |-> IF a.end = "LOCAL"
                          THEN "MRPC_PORT_EQ_LOCAL_TX_FSLF_DUMP"
                          ELSE "MRPC_PORT_EQ_FAR_END_TX_FSLF_DUMP",
            port_id |-> a.port_id]
      ELSE [lane_id |-> a.lane_id,
            cmd |-> "MRPC_EXT_RCVR_OBJ_DUMP",
            sub_cmd |-> IF a.end = "LOCAL"
                          THEN "MRPC_EXT_RCVR_OBJ_DUMP_LOCAL_TX_FSLF_PREV"
                          ELSE "MRPC_EXT_RCVR_OBJ_DUMP_FAR_END_TX_FSLF_PREV",
            port_id |-> a.port_id]

\* switchtec_gen4_diag_port_eq_tx_fslf
Gen4PortEqTxFslf ==
    /\ pc = "eq_tx_fslf"
    /\ EqStrategy(gen) = "gen4"
    /\ \/ /\ IsNull(res)
          /\ EqReturn(-1, -EINVAL)
       \/ /\ ~IsNull(res)
          /\ \/ arg.end \notin {"LOCAL", "FAR_END"}
             \/ arg.link \notin {"CURRENT", "PREVIOUS"}
          /\ EqReturn(-1, -EINVAL)
       \/ /\ ~IsNull(res)
          /\ arg.end \in {"LOCAL", "FAR_END"}
          /\ arg.link \in {"CURRENT", "PREVIOUS"}
          /\ EqExchange(Gen4FslfReq(arg), FslfOuts, FALSE)
          /\ res' = Stored(res, StoreFslf(res, rsp'))

---------------------------------------------------------------------------
(* switchtec_diag_rcvr_obj, switchtec_diag_rcvr_ext *)

RcvrObjOuts ==
    {[lane_id |-> 0, port_id |-> 0, ctle |-> 3, target_amplitude |-> 80,
      speculative_dfe |-> 1, dynamic_dfe |-> <<1, 2, 3, 4, 5, 6, 7>>],
     [lane_id |-> 3, port_id |-> 1, ctle |-> 0, target_amplitude |-> 0,
      speculative_dfe |-> 9, dynamic_dfe |-> <<0, 0, 0, 0, 0, 0, 8>>]}

RcvrExtOuts ==
    {[ctle2_rx_mode |-> 1, dtclk_9 |-> 0, dtclk_8_6 |-> 5, dtclk_5 |-> 1],
     [ctle2_rx_mode |-> 0, dtclk_9 |-> 1, dtclk_8_6 |-> 0, dtclk_5 |-> 0]}

FreshRcvrObj ==
    [lane_id |-> -1, port_id |-> -1, ctle |-> -1, target_amplitude |-> -1,
     speculative_dfe |-> -1, dynamic_dfe |-> <<-1, -1, -1, -1, -1, -1, -1>>]
FreshRcvrExt ==
    [ctle2_rx_mode |-> -1, dtclk_9 |-> -1, dtclk_8_6 |-> -1, dtclk_5 |-> -1]

\* res->port_id = out.port_id; ...; the dynamic_dfe loop runs over
\* ARRAY_SIZE(res->dynamic_dfe)
StoreRcvrObj(r, out) ==
    IF r = Null THEN r
    ELSE [lane_id |-> out.lane_id, port_id |-> out.port_id,
          ctle |-> out.ctle, target_amplitude |-> out.target_amplitude,
          speculative_dfe |-> out.speculative_dfe,
          dynamic_dfe |-> [i \in DOMAIN r.dynamic_dfe |->
                              out.dynamic_dfe[i]]]

StoreRcvrExt(r, out) ==
    IF r = Null THEN r
    ELSE [ctle2_rx_mode |-> out.ctle2_rx_mode, dtclk_9 |-> out.dtclk_9,
          dtclk_8_6 |-> out.dtclk_8_6, dtclk_5 |-> out.dtclk_5]

RcvrObjCall ==
    \E p \in PortIds, n \in LaneArgs, l \in Links, r \in {Null, FreshRcvrObj} :
        EqBegin("rcvr_obj", [lane_id |-> n, port_id |-> p, link |-> l], r,
                "rcvr_obj")

RcvrObjReq(a) ==
    IF a.link = "CURRENT"
      THEN [lane_id |-> a.lane_id, cmd |-> "MRPC_RCVR_OBJ_DUMP",
            port_id |-> a.port_id]
      ELSE [lane_id |-> a.lane_id,
            cmd |-> "MRPC_EXT_RCVR_OBJ_DUMP",
            sub_cmd |-> "MRPC_EXT_RCVR_OBJ_DUMP_PREV", port_id |-> a.port_id]

\* switchtec_diag_rcvr_obj
RcvrObj ==
    /\ pc = "rcvr_obj"
    /\ \/ /\ IsNull(res)
          /\ EqReturn(-1, -EINVAL)
       \/ /\ ~IsNull(res)
          /\ arg.link \notin {"CURRENT", "PREVIOUS"}
          /\ EqReturn(-1, -EINVAL)
       \/ /\ ~IsNull(res)
          /\ arg.link \in {"CURRENT", "PREVIOUS"}
          /\ EqExchange(RcvrObjReq(arg), RcvrObjOuts, FALSE)
          /\ res' = Stored(res, StoreRcvrObj(res, rsp'))

RcvrExtCall ==
    \E p \in PortIds, n \in LaneArgs, l \in Links, r \in {Null, FreshRcvrExt} :
        EqBegin("rcvr_ext", [lane_id |-> n, port_id |-> p, link |-> l], r,
                "rcvr_ext")

RcvrExtReq(a) ==
    [lane_id |-> a.lane_id,
     cmd |-> "MRPC_EXT_RCVR_OBJ_DUMP",
     sub_cmd |-> IF a.link = "CURRENT" THEN "MRPC_EXT_RCVR_OBJ_DUMP_RCVR_EXT"
                 ELSE "MRPC_EXT_RCVR_OBJ_DUMP_RCVR_EXT_PREV", port_id |-> a.port_id]

\* switchtec_diag_rcvr_ext
RcvrExt ==
    /\ pc = "rcvr_ext"
    /\ \/ /\ IsNull(res)
          /\ EqReturn(-1, -EINVAL)
       \/ /\ ~IsNull(res)
          /\ arg.link \notin {"CURRENT", "PREVIOUS"}
          /\ EqReturn(-1, -EINVAL)
       \/ /\ ~IsNull(res)
          /\ arg.link \in {"CURRENT", "PREVIOUS"}
          /\ EqExchange(RcvrExtReq(arg), RcvrExtOuts, FALSE)
          /\ res' = Stored(res, StoreRcvrExt(res, rsp'))

---------------------------------------------------------------------------
(* switchtec_diag_ltssm_log *)

\* *log_count as a caller passes it: an int, which nothing validates
CallerLogCounts == {-1, 0, 2, 64, 130, 200, 300}

\* the number of entries the device reports in its status: log_num, one
\* byte, on Gen4 and trig_cnt, two bytes, on Gen5
Gen4LogNums == {0, 1, 100, 255}
Gen5TrigCnts == {0, 1, 100, 189}

\* mutant: everything that is not Gen5 is handled as Gen4
LtssmStrategyElseGen4(g) == IF switchtec_is_gen5(g) THEN "gen5" ELSE "gen4"

\* if (switchtec_is_gen5(dev)) ... else if (switchtec_is_gen4(dev)) ... else
LtssmStrategy(g) ==
    IF switchtec_is_gen5(g) THEN "gen5"
    ELSE IF switchtec_is_gen4(g) THEN "gen4"
    ELSE "none"

\* entries per dump request: Gen4 splits at 126, Gen5 reads MAX_LOG_READ
Gen4MaxDump == 126
MAX_LOG_READ == 63

\* sub-command bytes of MRPC_DIAG_PORT_LTSSM_LOG
SubCmdFreeze == 14
SubCmdStatusGen4 == 13
SubCmdDumpGen4 == 15
SubCmdStatusGen5 == 20
SubCmdDumpGen5 == 21

\* entry k of the log held by a Gen4 device: two 32-bit words, dw0 with rate
\* in bits 13-14, major in bits 7-10 and minor in bits 3-6, dw1 with the
\* timestamp in bits 0-25
Gen4DevEntry(k) ==
    [dw0 |-> (k % 4) * 8192 + ((k \div 4) % 16) * 128 + (k % 16) * 8 + 5,
     dw1 |-> 67108864 + 1000 + k]

\* entry k of the log held by a Gen5 device: struct log_buffer
Gen5DevEntry(k) ==
    [rx_10s |-> 1, minor |-> k % 16, major |-> (k \div 4) % 64,
     link_rate |-> k % 4, rlov |-> 0, time_stamp |-> 1000 + k,
     ts_high |-> k % 32, cond |-> 0]

\* the response of a dump request for n entries from index on
DumpOut(g, index, n) ==
    [entries |-> [i \in 0..(n - 1) |->
                     IF g = "gen5" THEN Gen5DevEntry(index + i)
                     ELSE Gen4DevEntry(index + i)]]

\* the status responses
Gen4StatusOuts ==
    [w0_trigger_count : {0}, w1_trigger_count : {0}, log_num : Gen4LogNums]
Gen5StatusOuts ==
    [time_stamp : {0}, w0_trigger_count : {0}, w1_trigger_count : {0},
     trig_cnt : Gen5TrigCnts, trig_src_stat : {0}]

\* the count a status response reports
ReportedCount(g, out) == IF g = "gen5" THEN out.trig_cnt ELSE out.log_num

\* if (status_output.log_num < *log_count) *log_count = status_output.log_num;
ClampLogCount(count, reported) == IF reported < count THEN reported ELSE count

\* switchtec_gen_transfers[i]: the transfer rate of table entry i
GenTransfers(i) == [k |-> "gen_transfers", idx |-> i]

\* mutant: major in the high byte
LinkStateMajorHigh(major, minor) == major * 256 + minor

\* major | (minor << 8); major has at most 6 bits and (minor << 8) has none
\* of them, so the | is a sum
LinkState(major, minor) == major + minor * 256

\* the Gen4 decode of one entry
Gen4Decode(e) ==
    LET rate == (e.dw0 \div 8192) % 4
        major == (e.dw0 \div 128) % 16
        minor == (e.dw0 \div 8) % 16
    IN [link_rate |-> GenTransfers(rate + 1),
        timestamp |-> e.dw1 % 67108864,
        timestamp_high |-> 0,
        link_state |-> LinkState(major, minor)]

\* the Gen5 decode of one entry
Gen5Decode(e) ==
    [link_rate |-> GenTransfers(e.link_rate + 1),
     timestamp |-> e.time_stamp,
     timestamp_high |-> e.ts_high,
     link_state |-> LinkState(e.major, e.minor)]

\* ltssm_freeze with freeze = f; its fourth byte `unused` is never assigned
\* and is u, whatever the stack held
\* mutant: the freeze flag is never set
FreezeReqNever(a, f, u) ==
    [cmd |-> "MRPC_DIAG_PORT_LTSSM_LOG", sub_cmd |-> SubCmdFreeze,
     port |-> a.port, freeze |-> 0, unused |-> u]

FreezeReq(a, f, u) ==
    [cmd |-> "MRPC_DIAG_PORT_LTSSM_LOG", sub_cmd |-> SubCmdFreeze,
     port |-> a.port, freeze |-> f, unused |-> u]

StatusReq(g, a) ==
    [cmd |-> "MRPC_DIAG_PORT_LTSSM_LOG",
     sub_cmd |-> IF g = "gen5" THEN SubCmdStatusGen5 ELSE SubCmdStatusGen4,
     port |-> a.port]

DumpReq(g, a, index, n) ==
    [cmd |-> "MRPC_DIAG_PORT_LTSSM_LOG",
     sub_cmd |-> IF g = "gen5" THEN SubCmdDumpGen5 ELSE SubCmdDumpGen4,
     port |-> a.port, log_index |-> index, no_of_logs |-> n]

\* the caller's array holds the log_count entries asked for
LtssmLogCall ==
    \E p \in PortIds, n \in CallerLogCounts :
        /\ pc = "idle"
        /\ pc' = "ltssm_log"
        /\ op' = "ltssm_log"
        /\ arg' = [log_count |-> n, port |-> p]
        /\ log_count' = n
        /\ log_data' = [i \in 0..(n - 1) |-> Untouched]
        /\ UNCHANGED <<gen, res, sent, rcvd, delays, nBusy, rsp, loc, ret,
                       errno, enabled, ltssm_speed, lane_id, pixels>>

\* neither generation: ret keeps its initial value -EINVAL
LtssmLogUnsupported ==
    /\ pc = "ltssm_log"
    /\ LtssmStrategy(gen) = "none"
    /\ ret' = -EINVAL
    /\ pc' = "done"
    /\ UNCHANGED <<dumpVars, op, arg, sent, rcvd, delays, nBusy, rsp, loc,
                   errno, enabled, ltssm_speed, lane_id, pixels>>

\* mutant: the result of the request is not tested
LtssmGoOnAnyway(o, next) == pc' = next /\ UNCHANGED ret

\* if (ret) return ret;  and otherwise on to next
LtssmGoOn(o, next) ==
    IF o.ret # 0 THEN pc' = "done" /\ ret' = o.ret
    ELSE pc' = next /\ UNCHANGED ret

\* freeze logs
LtssmFreeze ==
    /\ pc = "ltssm_log"
    /\ LtssmStrategy(gen) # "none"
    /\ \E o \in CmdOutcomes(errno), u \in IndeterminateBytes :
           /\ Exchange(FreezeReq(arg, 1, u), o, {rsp}, {rsp})
           /\ errno' = o.errno
           /\ LtssmGoOn(o, "ltssm_status")
    /\ UNCHANGED <<dumpVars, op, arg, delays, nBusy, loc, enabled,
                   ltssm_speed, lane_id, pixels>>

\* get number of entries, clamp *log_count; Gen5 enters its loop with
\* cur_idx = 0 and avail_log = *log_count, and skips it when that is 0
LtssmStatus ==
    /\ pc = "ltssm_status"
    /\ \E o \in CmdOutcomes(errno) :
           /\ Exchange(StatusReq(LtssmStrategy(gen), arg), o,
                       IF LtssmStrategy(gen) = "gen5" THEN Gen5StatusOuts
                       ELSE Gen4StatusOuts,
                       {NoRsp})
           /\ errno' = o.errno
           /\ log_count' =
                  IF o.ret = 0
                    THEN ClampLogCount(log_count,
                             ReportedCount(LtssmStrategy(gen), rsp'))
                    ELSE log_count
           /\ loc' = [cur_idx |-> 0, avail_log |-> log_count']
           /\ LtssmGoOn(o, IF LtssmStrategy(gen) = "gen5" /\ log_count' <= 0
                             THEN "ltssm_unfreeze" ELSE "ltssm_dump")
    /\ UNCHANGED <<gen, res, log_data, op, arg, delays, nBusy, enabled,
                   ltssm_speed, lane_id, pixels>>

\* an entry of log_dump_out that no response has filled
Indeterminate == [k |-> "indeterminate"]

\* for (i = 0; i < *log_count; i++) log_data[i] = decode of log_dump_out[i]
Gen4DecodeAll(buf, count, old) ==
    [i \in DOMAIN old |->
        IF i < count
          THEN (IF i \in DOMAIN buf THEN Gen4Decode(buf[i])
                ELSE Indeterminate)
          ELSE old[i]]

\* log_dump.no_of_logs = *log_count: the field is one byte wide
Gen4NoOfLogs(count) == count % 256

\* mutant: one request whatever the count
Gen4SplitNever(n) == FALSE

\* if (log_dump.no_of_logs <= 126) one request, else two
Gen4Split(n) == n > Gen4MaxDump

\* mutant: a failed dump request ends the call in both generations
AfterDumpFailureReturn(g) == "done"

\* mutant: Gen5 tries the failed chunk again
AfterDumpFailureRetry(g) == IF g = "gen5" THEN "ltssm_dump" ELSE "done"

\* where a failed dump request leads: Gen4 returns (if (ret) return ret),
\* Gen5 breaks out of its loop to the unfreeze
AfterDumpFailure(g) == IF g = "gen5" THEN "ltssm_unfreeze" ELSE "done"

\* Gen4, get log data: one request for up to 126 entries, or the first 126 of
\* two; after the last request the entries are decoded
Gen4LtssmDump ==
    /\ pc = "ltssm_dump"
    /\ LtssmStrategy(gen) = "gen4"
    /\ \E o \in CmdOutcomes(errno) :
           LET n == Gen4NoOfLogs(log_count)
               one == ~Gen4Split(n)
               m == IF one THEN n ELSE Gen4MaxDump
           IN /\ Exchange(DumpReq("gen4", arg, 0, m), o,
                          {DumpOut("gen4", 0, m)}, {NoRsp})
              /\ errno' = o.errno
              /\ IF o.ret # 0
                   THEN pc' = AfterDumpFailure("gen4") /\ ret' = o.ret
                   ELSE /\ pc' = (IF one THEN "ltssm_unfreeze"
                                  ELSE "ltssm_dump2")
                        /\ UNCHANGED ret
              /\ loc' = IF o.ret = 0 /\ ~one
                          THEN [log_dump_out |-> rsp'.entries]
                          ELSE loc
              /\ log_data' = IF o.ret = 0 /\ one
                               THEN Gen4DecodeAll(rsp'.entries, log_count,
                                                  log_data)
                               ELSE log_data
    /\ UNCHANGED <<gen, res, log_count, op, arg, delays, nBusy, enabled,
                   ltssm_speed, lane_id, pixels>>

\* Gen4, the second request: index 126, *log_count - 126 entries, stored at
\* log_dump_out + 126
Gen4LtssmDump2 ==
    /\ pc = "ltssm_dump2"
    /\ \E o \in CmdOutcomes(errno) :
           LET m == Gen4NoOfLogs(log_count - Gen4MaxDump)
           IN /\ Exchange(DumpReq("gen4", arg, Gen4MaxDump, m), o,
                          {DumpOut("gen4", Gen4MaxDump, m)}, {NoRsp})
              /\ errno' = o.errno
              /\ IF o.ret # 0
                   THEN pc' = AfterDumpFailure("gen4") /\ ret' = o.ret
                   ELSE pc' = "ltssm_unfreeze" /\ UNCHANGED ret
              /\ log_data' =
                     IF o.ret = 0
                       THEN Gen4DecodeAll(
                                [i \in 0..(Gen4MaxDump + m - 1) |->
                                    IF i < Gen4MaxDump
                                      THEN loc.log_dump_out[i]
                                      ELSE rsp'.entries[i - Gen4MaxDump]],
                                log_count, log_data)
                       ELSE log_data
    /\ UNCHANGED <<gen, res, log_count, op, arg, delays, nBusy, loc, enabled,
                   ltssm_speed, lane_id, pixels>>

\* mutant: the index is not advanced
NextIdxStuck(cur_idx, n) == cur_idx

\* cur_idx += log_dump.no_of_logs
NextIdx(cur_idx, n) == cur_idx + n

\* mutant: the whole remainder in one request
ChunkLenAll(avail) == avail

\* (avail_log > MAX_LOG_READ) ? MAX_LOG_READ : avail_log
ChunkLen(avail) == IF avail > MAX_LOG_READ THEN MAX_LOG_READ ELSE avail

\* Gen5, one pass of while (avail_log > 0): a chunk of up to MAX_LOG_READ
\* entries from cur_idx, decoded into log_data[cur_idx ...]; a failed request
\* breaks out of the loop
\* mutant: the remaining count is not reduced
RemainingStuck(avail, n) == avail

\* avail_log = avail_log - log_dump.no_of_logs
Remaining(avail, n) == avail - n

Gen5LtssmDump ==
    /\ pc = "ltssm_dump"
    /\ LtssmStrategy(gen) = "gen5"
    /\ \E o \in CmdOutcomes(errno) :
           LET n == ChunkLen(loc.avail_log)
               more == loc.avail_log > n
           IN /\ Exchange(DumpReq("gen5", arg, loc.cur_idx, n), o,
                          {DumpOut("gen5", loc.cur_idx, n)}, {NoRsp})
              /\ errno' = o.errno
              /\ IF o.ret # 0
                   THEN /\ pc' = AfterDumpFailure("gen5")
                        /\ UNCHANGED <<loc, log_data>>
                   ELSE /\ log_data' =
                               [i \in DOMAIN log_data |->
                                   IF i >= loc.cur_idx /\ i < loc.cur_idx + n
                                     THEN Gen5Decode(
                                              rsp'.entries[i - loc.cur_idx])
                                     ELSE log_data[i]]
                        /\ loc' = [cur_idx |-> NextIdx(loc.cur_idx, n),
                                   avail_log |-> IF more
                                                   THEN Remaining(
                                                            loc.avail_log, n)
                                                   ELSE loc.avail_log]
                        /\ pc' = IF more THEN "ltssm_dump"
                                 ELSE "ltssm_unfreeze"
    /\ UNCHANGED <<gen, res, log_count, op, arg, delays, nBusy, ret, enabled,
                   ltssm_speed, lane_id, pixels>>

\* mutant: the call reports success once the log is dumped
LtssmResultZero(o) == 0

\* ret = switchtec_cmd(... &ltssm_freeze ...); return ret;
LtssmResult(o) == o.ret

\* unfreeze logs; its result is the result of the call
LtssmUnfreeze ==
    /\ pc = "ltssm_unfreeze"
    /\ \E o \in CmdOutcomes(errno), u \in IndeterminateBytes :
           /\ Exchange(FreezeReq(arg, 0, u), o, {rsp}, {rsp})
           /\ errno' = o.errno
           /\ ret' = LtssmResult(o)
           /\ pc' = "done"
    /\ UNCHANGED <<dumpVars, op, arg, delays, nBusy, loc, enabled,
                   ltssm_speed, lane_id, pixels>>

---------------------------------------------------------------------------
(* switchtec_diag_cross_hair_get *)

\* enum switchtec_diag_cross_hair_state: Nop (disabled) and Waiting first,
\* then the states of a scan in progress, then Done, then Error
SWITCHTEC_DIAG_CROSS_HAIR_WAITING == 2
SWITCHTEC_DIAG_CROSS_HAIR_DONE == 21
SWITCHTEC_DIAG_CROSS_HAIR_ERROR == 22

\* the states a lane record of the response carries: disabled, waiting, two
\* states of a scan in progress, done, error
CrossHairStates == {0, 2, 3, 20, 21, 22}

\* num_lanes of a call, and the index of a lane record
NumLanes == 1..MaxLanes
CrossHairIdx(n) == 0..(n - 1)

\* struct switchtec_diag_cross_hair_get of lane record i with state st: the
\* device fills every field, whatever the state
CrossHairOut(start, i, st) ==
    [lane_id |-> start + i, state |-> st,
     x_pos |-> 7 + i, y_pos |-> 9 + i,
     eye_left_lim |-> 11, eye_right_lim |-> 12,
     eye_bot_left_lim |-> 13, eye_bot_right_lim |-> 14,
     eye_top_left_lim |-> 15, eye_top_right_lim |-> 16,
     prev_state |-> 4]

\* out[num_lanes] as the device fills it
CrossHairOuts(a) ==
    {[lanes |-> [i \in CrossHairIdx(a.num_lanes) |->
                    CrossHairOut(a.lane_id, i, sts[i])]] :
        sts \in [CrossHairIdx(a.num_lanes) -> CrossHairStates]}

\* memset(&res[i], 0, sizeof(res[i]))
CrossHairZero ==
    [lane_id |-> 0, state |-> 0, x_pos |-> 0, y_pos |-> 0,
     eye_left_lim |-> 0, eye_right_lim |-> 0,
     eye_bot_left_lim |-> 0, eye_bot_right_lim |-> 0,
     eye_top_left_lim |-> 0, eye_top_right_lim |-> 0,
     prev_state |-> 0]

\* mutant: the state of the first record selects the fields of every record
CrossHairDecodeFirst(out, i) ==
    LET o == out[i]
        z == [CrossHairZero EXCEPT !.state = o.state, !.lane_id = o.lane_id]
        st == out[0].state
    IN IF st <= SWITCHTEC_DIAG_CROSS_HAIR_WAITING THEN z
       ELSE IF st < SWITCHTEC_DIAG_CROSS_HAIR_DONE
         THEN [z EXCEPT !.x_pos = o.x_pos, !.y_pos = o.y_pos]
       ELSE IF st = SWITCHTEC_DIAG_CROSS_HAIR_DONE
         THEN [z EXCEPT !.eye_left_lim = o.eye_left_lim,
                        !.eye_right_lim = o.eye_right_lim,
                        !.eye_bot_left_lim = o.eye_bot_left_lim,
                        !.eye_bot_right_lim = o.eye_bot_right_lim,
                        !.eye_top_left_lim = o.eye_top_left_lim,
                        !.eye_top_right_lim = o.eye_top_right_lim]
       ELSE IF st = SWITCHTEC_DIAG_CROSS_HAIR_ERROR
         THEN [z EXCEPT !.x_pos = o.x_pos, !.y_pos = o.y_pos,
                        !.prev_state = o.prev_state]
       ELSE z

\* one pass of the loop: res[i] zeroed, state and lane_id copied, then the
\* fields of out[i].state
CrossHairDecode(out, i) ==
    LET o == out[i]
        z == [CrossHairZero EXCEPT !.state = o.state, !.lane_id = o.lane_id]
    IN IF o.state <= SWITCHTEC_DIAG_CROSS_HAIR_WAITING THEN z
       ELSE IF o.state < SWITCHTEC_DIAG_CROSS_HAIR_DONE
         THEN [z EXCEPT !.x_pos = o.x_pos, !.y_pos = o.y_pos]
       ELSE IF o.state = SWITCHTEC_DIAG_CROSS_HAIR_DONE
         THEN [z EXCEPT !.eye_left_lim = o.eye_left_lim,
                        !.eye_right_lim = o.eye_right_lim,
                        !.eye_bot_left_lim = o.eye_bot_left_lim,
                        !.eye_bot_right_lim = o.eye_bot_right_lim,
                        !.eye_top_left_lim = o.eye_top_left_lim,
                        !.eye_top_right_lim = o.eye_top_right_lim]
       ELSE IF o.state = SWITCHTEC_DIAG_CROSS_HAIR_ERROR
         THEN [z EXCEPT !.x_pos = o.x_pos, !.y_pos = o.y_pos,
                        !.prev_state = o.prev_state]
       ELSE z

\* for (i = 0; i < num_lanes; i++)
StoreCrossHair(r, out) ==
    [lanes |-> [i \in DOMAIN r.lanes |-> CrossHairDecode(out.lanes, i)]]

CrossHairGetReq(a) ==
    [lane_id |-> a.lane_id, cmd |-> "MRPC_CROSS_HAIR",
     sub_cmd |-> "MRPC_CROSS_HAIR_GET", num_lanes |-> a.num_lanes]

\* the caller's res[] has num_lanes entries
CrossHairGetCall ==
    \E n \in LaneArgs, k \in NumLanes :
        EqBegin("cross_hair_get", [lane_id |-> n, num_lanes |-> k],
                [lanes |-> [i \in CrossHairIdx(k) |-> Untouched]],
                "cross_hair_get")

\* switchtec_diag_cross_hair_get: one request, its failure returned as it is
CrossHairGet ==
    /\ pc = "cross_hair_get"
    /\ EqExchange(CrossHairGetReq(arg), CrossHairOuts(arg), TRUE)
    /\ res' = Stored(res, StoreCrossHair(res, rsp'))

---------------------------------------------------------------------------
(* switchtec_diag_perm_table *)

\* number of command ids, and of the 32-bit words of the bitmap
MRPC_MAX_ID == MaxMrpcId + 1
MrpcIds == 0..(MRPC_MAX_ID - 1)
PermWordCnt == (MRPC_MAX_ID + 31) \div 32

\* a word of the bitmap, as the set of the bit positions that are set
PermWords == {{}, {3}, {1, 4}, {0, 1, 31}}

\* perms[] as the device fills it
PermOuts == [perms : [0..(PermWordCnt - 1) -> PermWords]]

\* a slot of switchtec_mrpc_table without a record: tag is NULL
NoMrpc == [tag |-> Null, desc |-> Null, reserved |-> FALSE]

\* switchtec_mrpc_table[]: the static table of the library, with a record for
\* the ids of Registered
MrpcTable(Registered) ==
    [i \in MrpcIds |->
        IF i \in Registered
          THEN [tag |-> [text |-> "tag", id |-> i],
                desc |-> [text |-> "desc", id |-> i],
                reserved |-> (i = 1)]
          ELSE NoMrpc]

MrpcTables == {MrpcTable({1, 4, 33}), MrpcTable({0, 3, 32})}

\* table[] of the caller before the call
FreshPermTable ==
    [table |-> [i \in MrpcIds |->
                   [tag |-> Untouched, desc |-> Untouched,
                    reserved |-> Untouched]]]

\* mutant: the bit is looked up in the first word
PermBitWord0(perms, i) == (i % 32) \in perms[0]

\* perms[i >> 5] & (1 << (i & 0x1f))
PermBit(perms, i) == (i % 32) \in perms[i \div 32]

\* the loop over the ids
StorePermTable(r, out, static) ==
    [table |->
        [i \in MrpcIds |->
            IF PermBit(out.perms, i)
              THEN (IF static[i].tag # Null THEN static[i]
                    ELSE [tag |-> [text |-> "UNKNOWN"],
                          desc |-> [text |-> "Unknown MRPC Command"],
                          reserved |-> TRUE])
              ELSE [r.table[i] EXCEPT !.tag = Null, !.desc = Null]]]

PermTableReq == [cmd |-> "MRPC_MRPC_PERM_TABLE_GET"]

PermTableCall ==
    \E t \in MrpcTables :
        EqBegin("perm_table", [mrpc_table |-> t], FreshPermTable,
                "perm_table")

\* switchtec_diag_perm_table: one request without payload; a failure
\* returns -1
PermTable ==
    /\ pc = "perm_table"
    /\ EqExchange(PermTableReq, PermOuts, FALSE)
    /\ res' = Stored(res, StorePermTable(res, rsp', arg.mrpc_table))

---------------------------------------------------------------------------
(* The dispatcher operations of one request: cross hair enable and disable, *)
(* pattern generator and monitor, refclk control, AER event generation      *)

DispatcherOps ==
    {"cross_hair_enable", "cross_hair_disable", "pattern_gen_set",
     "pattern_gen_get", "pattern_mon_set", "pattern_mon_get",
     "pattern_inject", "refclk_ctl", "aer_event_gen"}

\* the lane argument that stands for all lanes
SWITCHTEC_DIAG_CROSS_HAIR_ALL_LANES == -1

\* the second argument of a call: a lane, a pattern type, an error count,
\* the enable flag or the AER error id, by the operation
DispatcherValues(name) ==
    CASE name = "cross_hair_enable" ->
           {0, SWITCHTEC_DIAG_CROSS_HAIR_ALL_LANES}
      [] name = "refclk_ctl" -> {0, 1}
      [] name \in {"cross_hair_disable", "pattern_gen_get"} -> {0}
      [] OTHER -> {0, 3}

\* the request struct of each operation
DispatcherReq(name, a) ==
    CASE name = "cross_hair_enable" ->
           [lane_id |-> a.value, cmd |-> "MRPC_CROSS_HAIR",
            sub_cmd |-> "MRPC_CROSS_HAIR_ENABLE",
            all_lanes |-> a.value = SWITCHTEC_DIAG_CROSS_HAIR_ALL_LANES]
      [] name = "cross_hair_disable" ->
           [cmd |-> "MRPC_CROSS_HAIR", sub_cmd |-> "MRPC_CROSS_HAIR_DISABLE"]
      [] name = "pattern_gen_set" ->
           [cmd |-> "MRPC_PAT_GEN", sub_cmd |-> "MRPC_PAT_GEN_SET_GEN",
            port_id |-> a.port_id, pattern_type |-> a.value]
      [] name = "pattern_gen_get" ->
           [cmd |-> "MRPC_PAT_GEN", sub_cmd |-> "MRPC_PAT_GEN_GET_GEN",
            port_id |-> a.port_id]
      [] name = "pattern_mon_set" ->
           [cmd |-> "MRPC_PAT_GEN", sub_cmd |-> "MRPC_PAT_GEN_SET_MON",
            port_id |-> a.port_id, pattern_type |-> a.value]
      [] name = "pattern_mon_get" ->
           [lane_id |-> a.value, cmd |-> "MRPC_PAT_GEN",
            sub_cmd |-> "MRPC_PAT_GEN_GET_MON", port_id |-> a.port_id]
      [] name = "pattern_inject" ->
           [cmd |-> "MRPC_PAT_GEN", sub_cmd |-> "MRPC_PAT_GEN_INJ_ERR",
            port_id |-> a.port_id, err_cnt |-> a.value]
      [] name = "refclk_ctl" ->
           [cmd |-> "MRPC_REFCLK_S",
            sub_cmd |-> IF a.value = 1 THEN "MRPC_REFCLK_S_ENABLE"
                        ELSE "MRPC_REFCLK_S_DISABLE",
            stack_id |-> a.port_id]
      [] name = "aer_event_gen" ->
           [cmd |-> "MRPC_AER_GEN", sub_cmd |-> "trigger_event",
            phys_port_id |-> a.port_id, err_mask |-> 2 ^ a.value,
            hdr_log |-> <<0, 0, 0, 0>>]

\* what a successful request leaves in the response buffer; the operations
\* that pass resp = NULL get nothing
DispatcherOuts(name) ==
    CASE name = "pattern_gen_get" -> [pattern_type : {0, 3}]
      [] name = "pattern_mon_get" ->
           [pattern_type : {3}, err_cnt_lo : {W1}, err_cnt_hi : {W0, W2}]
      [] name = "aer_event_gen" -> [output : {0}]
      [] OTHER -> {NoRsp}

\* the caller's *type and *err_cnt before the call
FreshPattern == [type |-> Untouched, err_cnt |-> Untouched]

\* if (type) *type = out.pattern_type;  if (err_cnt) *err_cnt = lo | hi << 32
StoreDispatcher(name, r, out) ==
    CASE name = "pattern_gen_get" /\ ~IsNull(r) ->
           [r EXCEPT !.type = [v |-> out.pattern_type]]
      [] name = "pattern_mon_get" /\ ~IsNull(r) ->
           [r EXCEPT !.type = [v |-> out.pattern_type],
                     !.err_cnt = [v |-> hi_lo_to_uint64(out.err_cnt_lo,
                                                        out.err_cnt_hi)]]
      [] OTHER -> r

DispatcherCall ==
    \E name \in DispatcherOps, p \in PortIds :
        \E v \in DispatcherValues(name), r \in {Null, FreshPattern} :
            /\ name \notin {"pattern_gen_get", "pattern_mon_get"} =>
                   r = FreshPattern
            /\ EqBegin(name, [port_id |-> p, value |-> v], r, "dispatcher")

\* return switchtec_cmd(...), or  if (ret) return ret; ...; return 0
DispatcherCmd ==
    /\ pc = "dispatcher"
    /\ EqExchange(DispatcherReq(op, arg), DispatcherOuts(op), TRUE)
    /\ res' = Stored(res, StoreDispatcher(op, res, rsp'))

---------------------------------------------------------------------------
(* switchtec_gen5_diag_eye_status *)

Gen5EyeStatusReq ==
    [cmd |-> "MRPC_GEN5_EYE_CAPTURE", sub_cmd |-> "MRPC_EYE_CAP_STATUS_GEN5"]

\* out.status as the device fills it
Gen5EyeStatusOuts == [status : {0, 1, 2}]

\* the caller's *status before the call
FreshStatus == [status |-> -1]

\* out is declared without an initializer: what out.status holds when
\* switchtec_cmd copied no response into it
IndeterminateStatus == {-1, 0, 255}

\* ret = switchtec_cmd(...); *status = out.status; return ret;
\* A command the device rejected still has its response copied.
Gen5EyeStatusCall ==
    EqBegin("gen5_eye_status", [none |-> TRUE], FreshStatus,
            "gen5_eye_status_cmd")

Gen5EyeStatusCmd ==
    /\ pc = "gen5_eye_status_cmd"
    /\ \E o \in CmdOutcomes(errno) :
           /\ Exchange(Gen5EyeStatusReq, o, Gen5EyeStatusOuts,
                       Gen5EyeStatusOuts)
           /\ errno' = o.errno
           /\ \E s \in (IF o.delivered THEN {rsp'.status}
                        ELSE IndeterminateStatus) :
                  res' = [status |-> s]
           /\ ret' = o.ret
           /\ pc' = "done"
    /\ UNCHANGED <<gen, log_count, log_data, op, arg, delays, nBusy, loc,
                   enabled, ltssm_speed, lane_id, pixels>>

---------------------------------------------------------------------------
(* switchtec_gen5_diag_eye_read *)

\* indices of ber_data in struct switchtec_gen5_diag_eye_read_out
PhaseIdx == 0..(MaxPhases - 1)

\* a 64-bit little-endian wire field is its eight bytes, lowest first:
\* 0, 2^48 (the BER 1.0) and a value with bits in both halves
BerWords == {<<0, 0, 0, 0, 0, 0, 0, 0>>, <<0, 0, 0, 0, 0, 0, 1, 0>>,
             <<5, 0, 0, 0, 0, 1, 0, 0>>}

\* le64toh: the host value of the field, kept as <<low 32 bits, high 32 bits>>
le64toh(w) == <<le32toh(SubSeq(w, 1, 4)), le32toh(SubSeq(w, 5, 8))>>

\* values of the num_phases field: the in-range counts and the first one
\* past the array
PhaseCountField == {0, 1, MaxPhases, MaxPhases + 1}

Gen5EyeReadOuts == [num_phases : PhaseCountField,
                    ber_data : [PhaseIdx -> BerWords]]

Bins == {0, 63}

\* *num_phases and the caller's ber_data array before the call; the array
\* has one entry more than the response
FreshBer == [num_phases |-> -1, ber_data |-> [i \in 0..MaxPhases |-> Untouched]]

\* le64toh(out.ber_data[i]) / 281474976710656. : the 64-bit word over 2^48
BerValue(word) == [word |-> word, shift |-> 48]

\* the indices the loop reads behind out.ber_data
BeyondPhases(out) == {i \in 0..(out.num_phases - 1) : i \notin PhaseIdx}

\* the 64-bit words found behind out.ber_data
IndeterminateWords == {<<0, 0>>, <<7, 7>>}

\* *num_phases = out.num_phases;
\* for (i = 0; i < out.num_phases; i++) ber_data[i] = le64toh(...) / 2^48
StoreBer(r, out, g) ==
    [num_phases |-> out.num_phases,
     ber_data |-> [i \in DOMAIN r.ber_data |->
                      IF i < out.num_phases
                        THEN BerValue(IF i \in PhaseIdx
                                        THEN le64toh(out.ber_data[i])
                                        ELSE g[i])
                        ELSE r.ber_data[i]]]

Gen5EyeReadReq(a) ==
    [lane_id |-> a.lane_id, cmd |-> "MRPC_GEN5_EYE_CAPTURE",
     sub_cmd |-> "MRPC_EYE_CAP_READ_GEN5", bin |-> a.bin]

Gen5EyeReadCall ==
    \E l \in {0, 5}, b \in Bins :
        EqBegin("gen5_eye_read", [lane_id |-> l, bin |-> b], FreshBer,
                "gen5_eye_read_cmd")

\* ret = switchtec_cmd(...); if (ret) return ret; the copy; return ret
Gen5EyeReadCmd ==
    /\ pc = "gen5_eye_read_cmd"
    /\ EqExchange(Gen5EyeReadReq(arg), Gen5EyeReadOuts, TRUE)
    /\ IF ret' = 0
         THEN \E g \in [BeyondPhases(rsp') -> IndeterminateWords] :
                  res' = StoreBer(res, rsp', g)
         ELSE res' = res

---------------------------------------------------------------------------
(* Two callers of switchtec_diag_ltssm_log on one handle *)

\* The functions take no lock: each caller runs the statements of
\* switchtec_diag_ltssm_log_gen4 / _gen5 on its own locals, and the round
\* trips of the callers reach the device in the order the scheduler gives.
\* pc, loc, log_count, log_data, ret and errno hold one value per caller;
\* sent and rcvd are the requests and results in the order of arrival at the
\* device.  arg.serialized says that the callers hold an external mutex
\* around the whole call.  Both calls ask for two entries, so that either
\* generation sends one dump request per call.
Callers == {1, 2}

ConcLogCounts == {2}

\* the status response of the device: 100 entries logged
ConcStatusOuts(g) ==
    {out \in (IF g = "gen5" THEN Gen5StatusOuts ELSE Gen4StatusOuts) :
        ReportedCount(g, out) = 100}

ConcInit ==
    /\ pc = [c \in Callers |-> "idle"]
    /\ op = "ltssm_log"
    /\ arg \in [log_count : ConcLogCounts, port : {0}, serialized : BOOLEAN]
    /\ sent = <<>>
    /\ rcvd = <<>>
    /\ delays = <<>>
    /\ nBusy = 0
    /\ rsp = NoRsp
    /\ loc = [c \in Callers |-> NoLoc]
    /\ ret = [c \in Callers |-> 0]
    /\ errno = [c \in Callers |-> 0]
    /\ enabled = {}
    /\ ltssm_speed = 0
    /\ lane_id = -1
    /\ pixels = <<>>
    /\ gen \in {"GEN4", "GEN5"}
    /\ res = NoRes
    /\ log_count = [c \in Callers |-> 0]
    /\ log_data = [c \in Callers |-> <<>>]

concIdle == <<gen, res, op, arg, delays, nBusy, rsp, enabled, ltssm_speed,
              lane_id, pixels>>

\* one round trip of caller c
ConcExchange(c, req, o) ==
    /\ sent' = Append(sent, [req |-> req, caller |-> c])
    /\ rcvd' = Append(rcvd, [ret |-> o.ret, caller |-> c])
    /\ errno' = [errno EXCEPT ![c] = o.errno]

\* if (ret) return ret;  and otherwise on to next
ConcGoOn(c, o, next) ==
    IF o.ret # 0
      THEN pc' = [pc EXCEPT ![c] = "done"] /\ ret' = [ret EXCEPT ![c] = o.ret]
      ELSE pc' = [pc EXCEPT ![c] = next] /\ UNCHANGED ret

\* a caller enters the function; with external serialization only when no
\* other call is under way
ConcCall(c) ==
    /\ pc[c] = "idle"
    /\ arg.serialized => \A d \in Callers : pc[d] \in {"idle", "done"}
    /\ pc' = [pc EXCEPT ![c] = "ltssm_log"]
    /\ log_count' = [log_count EXCEPT ![c] = arg.log_count]
    /\ log_data' = [log_data EXCEPT
                       ![c] = [i \in 0..(arg.log_count - 1) |-> Untouched]]
    /\ UNCHANGED <<concIdle, sent, rcvd, loc, ret, errno>>

\* freeze logs
ConcFreeze(c) ==
    /\ pc[c] = "ltssm_log"
    /\ \E o \in CmdOutcomes(errno[c]), u \in IndeterminateBytes :
           /\ ConcExchange(c, FreezeReq(arg, 1, u), o)
           /\ ConcGoOn(c, o, "ltssm_status")
    /\ UNCHANGED <<concIdle, loc, log_count, log_data>>

\* get number of entries, clamp *log_count
ConcStatus(c) ==
    /\ pc[c] = "ltssm_status"
    /\ \E o \in CmdOutcomes(errno[c]),
          out \in ConcStatusOuts(LtssmStrategy(gen)) :
           LET n == IF o.ret = 0
                      THEN ClampLogCount(log_count[c],
                               ReportedCount(LtssmStrategy(gen), out))
                      ELSE log_count[c]
           IN /\ ConcExchange(c, StatusReq(LtssmStrategy(gen), arg), o)
              /\ log_count' = [log_count EXCEPT ![c] = n]
              /\ loc' = [loc EXCEPT ![c] = [cur_idx |-> 0, avail_log |-> n]]
              /\ ConcGoOn(c, o, IF LtssmStrategy(gen) = "gen5" /\ n <= 0
                                  THEN "ltssm_unfreeze" ELSE "ltssm_dump")
    /\ UNCHANGED <<concIdle, log_data>>

\* Gen4, get log data: the one request and the decode
ConcGen4Dump(c) ==
    /\ pc[c] = "ltssm_dump"
    /\ LtssmStrategy(gen) = "gen4"
    /\ ~Gen4Split(Gen4NoOfLogs(log_count[c]))
    /\ \E o \in CmdOutcomes(errno[c]) :
           LET n == Gen4NoOfLogs(log_count[c])
           IN /\ ConcExchange(c, DumpReq("gen4", arg, 0, n), o)
              /\ IF o.ret # 0
                   THEN /\ pc' = [pc EXCEPT ![c] = AfterDumpFailure("gen4")]
                        /\ ret' = [ret EXCEPT ![c] = o.ret]
                        /\ UNCHANGED log_data
                   ELSE /\ pc' = [pc EXCEPT ![c] = "ltssm_unfreeze"]
                        /\ UNCHANGED ret
                        /\ log_data' =
                               [log_data EXCEPT
                                   ![c] = Gen4DecodeAll(
                                              DumpOut("gen4", 0, n).entries,
                                              log_count[c], log_data[c])]
    /\ UNCHANGED <<concIdle, loc, log_count>>

\* Gen5, one iteration of the dump loop
ConcGen5Dump(c) ==
    /\ pc[c] = "ltssm_dump"
    /\ LtssmStrategy(gen) = "gen5"
    /\ \E o \in CmdOutcomes(errno[c]) :
           LET n == ChunkLen(loc[c].avail_log)
               more == loc[c].avail_log > n
               out == DumpOut("gen5", loc[c].cur_idx, n)
           IN /\ ConcExchange(c, DumpReq("gen5", arg, loc[c].cur_idx, n), o)
              /\ IF o.ret # 0
                   THEN /\ pc' = [pc EXCEPT ![c] = AfterDumpFailure("gen5")]
                        /\ UNCHANGED <<loc, log_data>>
                   ELSE /\ log_data' =
                               [log_data EXCEPT ![c] =
                                   [i \in DOMAIN log_data[c] |->
                                       IF /\ i >= loc[c].cur_idx
                                          /\ i < loc[c].cur_idx + n
                                         THEN Gen5Decode(
                                                  out.entries[
                                                      i - loc[c].cur_idx])
                                         ELSE log_data[c][i]]]
                        /\ loc' = [loc EXCEPT ![c] =
                                      [cur_idx |-> NextIdx(loc[c].cur_idx, n),
                                       avail_log |->
                                           IF more
                                             THEN Remaining(
                                                      loc[c].avail_log, n)
                                             ELSE loc[c].avail_log]]
                        /\ pc' = [pc EXCEPT ![c] = IF more THEN "ltssm_dump"
                                                   ELSE "ltssm_unfreeze"]
    /\ UNCHANGED <<concIdle, log_count, ret>>

\* unfreeze logs; return ret
ConcUnfreeze(c) ==
    /\ pc[c] = "ltssm_unfreeze"
    /\ \E o \in CmdOutcomes(errno[c]), u \in IndeterminateBytes :
           /\ ConcExchange(c, FreezeReq(arg, 0, u), o)
           /\ ret' = [ret EXCEPT ![c] = LtssmResult(o)]
           /\ pc' = [pc EXCEPT ![c] = "done"]
    /\ UNCHANGED <<concIdle, loc, log_count, log_data>>

ConcNext ==
    \E c \in Callers :
        \/ ConcCall(c)
        \/ ConcFreeze(c)
        \/ ConcStatus(c)
        \/ ConcGen4Dump(c)
        \/ ConcGen5Dump(c)
        \/ ConcUnfreeze(c)

ConcSpec == ConcInit /\ [][ConcNext]_vars

---------------------------------------------------------------------------
Init ==
    /\ pc = "idle"
    /\ op = "none"
    /\ arg = [none |-> TRUE]
    /\ sent = <<>>
    /\ rcvd = <<>>
    /\ delays = <<>>
    /\ nBusy = 0
    /\ rsp = NoRsp
    /\ loc = NoLoc
    /\ ret = 0
    /\ errno \in {0, EBUSY}
    /\ enabled = {}
    /\ ltssm_speed = 0
    /\ lane_id = -1
    /\ pixels = <<>>
    /\ gen \in Gens
    /\ res = NoRes
    /\ log_count = 0
    /\ log_data = <<>>

Next ==
    \/ LoopbackSetCall
    \/ LoopbackSetRxToTx
    \/ LoopbackSetTxToRx
    \/ LoopbackSetLtssm
    \/ LoopbackGetCall
    \/ LoopbackGetRxToTx
    \/ LoopbackGetTxToRx
    \/ LoopbackGetLtssm
    \/ EyeSetModeCall
    \/ EyeSetModeCmd
    \/ EyeStartCall
    \/ EyeStartCmd
    \/ EyeStartDelay
    \/ EyeCancelCall
    \/ EyeCancelCmd
    \/ EyeCancelDelay
    \/ Gen5EyeRunCall
    \/ Gen5EyeRunCmd
    \/ Gen5EyeRunDelay
    \/ EyeFetchCall
    \/ EyeFetchRetry
    \/ EyeFetchError
    \/ EyeFetchDone
    \/ PortEqTxCoeffCall
    \/ PortEqTxCoeffUnsupported
    \/ Gen5PortEqTxCoeff
    \/ Gen4PortEqTxCoeff
    \/ PortEqTxTableCall
    \/ PortEqTxTableUnsupported
    \/ Gen5PortEqTxTable
    \/ Gen4PortEqTxTable
    \/ PortEqTxFslfCall
    \/ PortEqTxFslfUnsupported
    \/ Gen5PortEqTxFslf
    \/ Gen4PortEqTxFslf
    \/ RcvrObjCall
    \/ RcvrObj
    \/ RcvrExtCall
    \/ RcvrExt
    \/ LtssmLogCall
    \/ LtssmLogUnsupported
    \/ LtssmFreeze
    \/ LtssmStatus
    \/ Gen4LtssmDump
    \/ Gen4LtssmDump2
    \/ Gen5LtssmDump
    \/ LtssmUnfreeze
    \/ CrossHairGetCall
    \/ CrossHairGet
    \/ PermTableCall
    \/ PermTable
    \/ DispatcherCall
    \/ DispatcherCmd
    \/ Gen5EyeStatusCall
    \/ Gen5EyeStatusCmd
    \/ Gen5EyeReadCall
    \/ Gen5EyeReadCmd

Spec == Init /\ [][Next]_vars

\* the device does not answer a running fetch busy for ever: the step of
\* the retry loop that ends it (a failed request, or a response that is not
\* busy) is eventually taken
FairSpec ==
    /\ Spec
    /\ WF_vars(EyeFetchError \/ EyeFetchDone)
    /\ WF_vars(LtssmFreeze)
    /\ WF_vars(LtssmStatus)
    /\ WF_vars(Gen5LtssmDump)
    /\ WF_vars(LtssmUnfreeze)

---------------------------------------------------------------------------
(* Properties *)

Last(s) == s[Len(s)]
Done(name) == op = name /\ pc = "done"

\* the documented order of the loopback sub-commands: (sub_cmd, type)
SetOrder ==
    <<<<"MRPC_LOOPBACK_SET_INT_LOOPBACK", "DIAG_LOOPBACK_RX_TO_TX">>,
      <<"MRPC_LOOPBACK_SET_INT_LOOPBACK", "DIAG_LOOPBACK_TX_TO_RX">>,
      <<"MRPC_LOOPBACK_SET_LTSSM_LOOPBACK", "LTSSM">>>>
GetOrder ==
    <<<<"MRPC_LOOPBACK_GET_INT_LOOPBACK", "DIAG_LOOPBACK_RX_TO_TX">>,
      <<"MRPC_LOOPBACK_GET_INT_LOOPBACK", "DIAG_LOOPBACK_TX_TO_RX">>,
      <<"MRPC_LOOPBACK_GET_LTSSM_LOOPBACK", "LTSSM">>>>
FlagOrder == <<"RX_TO_TX", "TX_TO_RX", "LTSSM">>

\* the requests sent so far are the first Len(sent) of `order`, each was
\* answered, and every one but possibly the last succeeded
FollowsOrder(order) ==
    /\ Len(sent) <= Len(order)
    /\ Len(rcvd) = Len(sent)
    /\ \A i \in 1..Len(sent) :
           /\ sent[i].cmd = "MRPC_INT_LOOPBACK"
           /\ <<sent[i].sub_cmd, sent[i].type>> = order[i]
           /\ sent[i].port_id = arg.port_id
    /\ \A i \in 1..(Len(rcvd) - 1) : rcvd[i].ret = 0
    /\ (pc # "done" /\ Len(rcvd) > 0) => Last(rcvd).ret = 0

\* C1: switchtec_diag_loopback_set sends RX->TX, TX->RX, LTSSM in that order;
\* when all succeed exactly these three are sent and 0 is returned; when the
\* k-th fails the call returns its error with exactly k requests sent (none
\* of the later ones, and none besides the documented set requests).
C1_LoopbackSetOrder ==
    op = "loopback_set" =>
        /\ FollowsOrder(SetOrder)
        /\ pc = "done" =>
               /\ Len(sent) >= 1
               /\ ret = Last(rcvd).ret
               /\ ret = 0 => Len(sent) = 3

C1_Witness ==
    /\ Done("loopback_set")
    /\ Len(sent) = 2
    /\ rcvd[1].ret = 0
    /\ ret = -EIO
    /\ arg.enable = {"RX_TO_TX"}

\* C2: every request of switchtec_diag_loopback_set carries enable = 1 when
\* the flag of its own mode is in the caller's mask and enable = 0 when not.
C2_LoopbackSetEnable ==
    op = "loopback_set" =>
        \A i \in 1..Len(sent) :
            sent[i].enable = (IF FlagOrder[i] \in arg.enable THEN 1 ELSE 0)

C2_Witness ==
    /\ Done("loopback_set")
    /\ arg.enable = {"RX_TO_TX"}
    /\ ret = 0
    /\ <<sent[1].enable, sent[2].enable, sent[3].enable>> = <<1, 0, 0>>

\* C3: switchtec_diag_loopback_get sends the three queries in order and,
\* when all three succeed, the mask it built (and stored in *enabled when
\* the pointer is not null) holds a mode's flag exactly when the answer to
\* that mode's query had enabled set.
C3_LoopbackGetOr ==
    op = "loopback_get" =>
        /\ FollowsOrder(GetOrder)
        /\ (pc = "done" /\ ret = 0) =>
               LET reported == {FlagOrder[i] : i \in
                                  {j \in 1..3 : rcvd[j].out.enabled # 0}}
               IN /\ Len(sent) = 3
                  /\ loc.en = reported
                  /\ arg.enabled => enabled = reported

C3_Witness ==
    /\ Done("loopback_get")
    /\ ret = 0
    /\ arg.enabled
    /\ enabled = {"RX_TO_TX", "LTSSM"}
    /\ rcvd[2].out.enabled = 0

\* a switchtec_cmd outcome that is a delivered response with status busy
BusyAnswer(e) == e.ret = 0 /\ e.out.status = 1

\* the running function's last status test passed: eye_fetch decoded a
\* response
FetchSucceeded == Done("eye_fetch") /\ loc.ret = 0

\* C4: switchtec_diag_eye_fetch never returns on a busy response: with k
\* busy responses seen (k below the counting bound) it has sent k requests
\* while running and k+1 when it has returned, every request but the last
\* was answered busy, 5 ms were slept after each of them, and the last
\* answer is a failed request, whose value is returned at once, or a
\* response that is not busy.
C4_FetchBusyRetry ==
    (op = "eye_fetch" /\ nBusy < MaxSent) =>
        /\ Len(sent) = nBusy + (IF pc = "done" THEN 1 ELSE 0)
        /\ Len(rcvd) = Len(sent)
        /\ \A i \in 1..Len(sent) : sent[i] = FetchReq
        /\ \A i \in 1..nBusy : BusyAnswer(rcvd[i])
        /\ delays = [i \in 1..nBusy |-> 5000]
        /\ pc = "done" =>
               /\ ~BusyAnswer(Last(rcvd))
               /\ Last(rcvd).ret # 0 => ret = Last(rcvd).ret

C4_Witness ==
    /\ FetchSucceeded
    /\ nBusy = MaxSent - 1
    /\ Len(sent) = MaxSent
    /\ BusyAnswer(rcvd[1])
    /\ rsp.status = 0

\* C5: under the assumption that the device does not answer busy for ever,
\* a running switchtec_diag_eye_fetch eventually returns; and a step of the
\* fetch returns exactly when its request was not answered busy (it failed
\* or the status is not 1), so that a busy answer always leads to another
\* request.
C5_FetchReturns ==
    /\ (op = "eye_fetch" /\ pc = "eye_fetch_cmd") ~> (pc = "done")
    /\ [][(pc = "eye_fetch_cmd" /\ Len(rcvd') > Len(rcvd)) =>
            (pc' = "done" <=> ~BusyAnswer(Last(rcvd')))]_vars
    /\ [][(pc = "eye_fetch_cmd" /\ loc'.ret = 0 /\ rsp'.status = 1) =>
            pc' = "eye_fetch_cmd"]_vars

C5_Witness ==
    /\ op = "eye_fetch"
    /\ pc = "eye_fetch_cmd"
    /\ nBusy = MaxSent + 1

\* C6: on success switchtec_diag_eye_fetch returns data_count_lo +
\* 256 * data_count_hi, also when that exceeds pixel_cnt, and the entries
\* of the pixel array it has written are exactly those at the indices below
\* min(count, pixel_cnt); the entry behind the array is untouched.
C6_FetchCountAndTruncation ==
    FetchSucceeded =>
        LET count == rsp.data_count_lo + 256 * rsp.data_count_hi
            written == IF count < arg.pixel_cnt THEN count ELSE arg.pixel_cnt
        IN /\ ret = count
           /\ DOMAIN pixels = 0..arg.pixel_cnt
           /\ \A i \in DOMAIN pixels : (pixels[i] # Untouched) <=> i < written

C6_Witness ==
    /\ FetchSucceeded
    /\ arg.pixel_cnt = MaxPixelCnt
    /\ ret > arg.pixel_cnt
    /\ pixels[arg.pixel_cnt - 1] # Untouched
    /\ pixels[arg.pixel_cnt] = Untouched

\* the errno that goes with a nonzero eye status
StatusErrno(s) == IF s = 2 THEN EINVAL ELSE IF s = 3 THEN EBUSY ELSE EPROTO

\* C7: when the request of set_mode, start or cancel is delivered, the call
\* sends no second request and its result follows the response's status:
\* 0 gives 0, 2 gives -1 with EINVAL, 3 gives -1 with EBUSY, any other
\* value (1 included) gives -1 with EPROTO; the same holds for the response
\* that ends a fetch, whose status is never 1.
C7_EyeStatusMapping ==
    /\ (pc = "done" /\ op \in {"eye_set_mode", "eye_start", "eye_cancel"}) =>
           /\ Len(sent) = 1
           /\ Len(rcvd) = 1
           /\ rcvd[1].ret = 0 =>
                  IF rcvd[1].out.status = 0
                    THEN ret = 0
                    ELSE ret = -1 /\ errno = StatusErrno(rcvd[1].out.status)
    /\ (Done("eye_fetch") /\ nBusy < MaxSent /\ Last(rcvd).ret = 0) =>
           /\ Last(rcvd).out.status # 1
           /\ IF Last(rcvd).out.status = 0
                THEN loc.ret = 0 /\ ret >= 0
                ELSE ret = -1 /\ errno = StatusErrno(Last(rcvd).out.status)

C7_Witness ==
    /\ Done("eye_start")
    /\ rcvd[1].ret = 0
    /\ rcvd[1].out.status = 1
    /\ ret = -1
    /\ errno = EPROTO
    /\ Len(sent) = 1

\* the result of the one request of start, cancel or run, from its outcome
RequestResult(name, e) ==
    IF name = "gen5_eye_run" \/ e.ret # 0 THEN e.ret
    ELSE IF e.out.status = 0 THEN 0 ELSE -1

SettleOps == {"eye_start", "eye_cancel", "gen5_eye_run"}
SettleLabels == {"eye_start_delay", "eye_cancel_delay", "gen5_eye_run_delay"}

\* C8: start, cancel and run send one request, then sleep 200 ms once,
\* whatever the request's result, and then return: the value returned is the
\* request's result and errno is what the request left, not what the sleep
\* left.
C8_SettleDelay ==
    /\ [](op \in SettleOps =>
            /\ pc \notin SettleLabels \cup {"done"} =>
                   sent = <<>> /\ delays = <<>>
            /\ pc \in SettleLabels =>
                   Len(sent) = 1 /\ Len(rcvd) = 1 /\ delays = <<>>
            /\ pc = "done" =>
                   /\ Len(sent) = 1
                   /\ delays = <<200000>>
                   /\ ret = RequestResult(op, rcvd[1]))
    /\ [][(pc \in SettleLabels) =>
            (pc' = "done" /\ errno' = errno /\ ret' = loc.ret)]_vars

C8_Witness ==
    /\ Done("eye_cancel")
    /\ rcvd[1].ret = 0
    /\ rcvd[1].out.status = 3
    /\ ret = -1
    /\ errno = EBUSY
    /\ delays = <<200000>>

\* the lane a mask selects: the index of its first nonzero bit, counted
\* through the four words, 32 bits a word
RECURSIVE LowestBit(_)
LowestBit(x) == IF x % 2 = 1 THEN 0 ELSE 1 + LowestBit(x \div 2)
FirstLane(mask) ==
    LET w == CHOOSE i \in 1..4 : mask[i] # 0 /\ \A j \in 1..(i - 1) : mask[j] = 0
    IN 32 * (w - 1) + LowestBit(mask[w])

\* C9: on success switchtec_diag_eye_fetch reports as lane_id the lane
\* selected by the first nonzero bit of the response's lane mask, counted
\* across the four mask words (a mask selecting lane 2 reports 2).
C9_LaneIdIsFirstLane ==
    (FetchSucceeded /\ \E i \in 1..4 : rsp.lane_mask[i] # 0) =>
        lane_id = FirstLane(rsp.lane_mask)

\* the value of a four-byte little-endian field
RECURSIVE ByteSum(_, _)
ByteSum(w, n) == IF n = 0 THEN 0 ELSE w[n] * 256 ^ (n - 1) + ByteSum(w, n - 1)

\* C10: in raw mode every decoded pixel is not-a-number when its record's
\* 64-bit sample count is 0, whatever the error count, and otherwise the
\* quotient of the error count by the sample count, each count being
\* hi * 2^32 + lo of its two wire fields.
C10_RawPixel ==
    (FetchSucceeded /\ rsp.data_mode = "RAW") =>
        \A i \in DOMAIN pixels :
            (pixels[i] # Untouched /\ i \in DOMAIN rsp.data) =>
                LET r == rsp.data[i]
                    errors == <<ByteSum(r.error_cnt_lo, 4),
                                ByteSum(r.error_cnt_hi, 4)>>
                    samples == <<ByteSum(r.sample_cnt_lo, 4),
                                 ByteSum(r.sample_cnt_hi, 4)>>
                IN IF samples = <<0, 0>>
                     THEN pixels[i] = [k |-> "nan"]
                     ELSE pixels[i] = [k |-> "quot", num |-> errors,
                                       den |-> samples]

C10_Witness ==
    /\ FetchSucceeded
    /\ rsp.data_mode = "RAW"
    /\ arg.pixel_cnt >= 2
    /\ ret >= 2
    /\ pixels[0] = [k |-> "nan"]
    /\ rsp.data[0].error_cnt_lo # W0
    /\ pixels[1].k = "quot"
    /\ pixels[1].den[1] = 0
    /\ pixels[1].den[2] # 0
    /\ pixels[1].num[2] # 0

---------------------------------------------------------------------------
(* Equalization dumps *)

EqOps == {"port_eq_tx_coeff", "port_eq_tx_table", "port_eq_tx_fslf"}
RcvrOps == {"rcvr_obj", "rcvr_ext"}

\* sub-commands only the Gen5 strategies send, and those only the Gen4
\* strategies send
Gen5EqSubCmds ==
    {"MRPC_GEN5_PORT_EQ_LOCAL_TX_COEFF_DUMP",
     "MRPC_GEN5_PORT_EQ_FAR_END_TX_COEFF_DUMP",
     "MRPC_GEN5_PORT_EQ_FAR_END_TX_EQ_TABLE_DUMP",
     "MRPC_GEN5_PORT_EQ_LOCAL_TX_FSLF_DUMP",
     "MRPC_GEN5_PORT_EQ_FAR_END_TX_FSLF_DUMP"}
Gen4EqSubCmds ==
    {"MRPC_PORT_EQ_LOCAL_TX_COEFF_DUMP",
     "MRPC_PORT_EQ_FAR_END_TX_COEFF_DUMP",
     "MRPC_EXT_RCVR_OBJ_DUMP_LOCAL_TX_COEFF_PREV",
     "MRPC_EXT_RCVR_OBJ_DUMP_FAR_END_TX_COEFF_PREV",
     "MRPC_PORT_EQ_FAR_END_TX_EQ_TABLE_DUMP",
     "MRPC_EXT_RCVR_OBJ_DUMP_EQ_TX_TABLE_PREV",
     "MRPC_PORT_EQ_LOCAL_TX_FSLF_DUMP",
     "MRPC_PORT_EQ_FAR_END_TX_FSLF_DUMP",
     "MRPC_EXT_RCVR_OBJ_DUMP_LOCAL_TX_FSLF_PREV",
     "MRPC_EXT_RCVR_OBJ_DUMP_FAR_END_TX_FSLF_PREV"}

OtherGen == gen \notin {"GEN4", "GEN5"}

\* C11: switchtec_diag_port_eq_tx_coeff, _tx_table and _tx_fslf on a handle
\* that is neither Gen4 nor Gen5 return an error (-1) and issue no request;
\* on a Gen5 handle only requests of the Gen5 strategy are sent and on a
\* Gen4 handle only requests of the Gen4 strategy.
C11_EqDispatch ==
    op \in EqOps =>
        /\ OtherGen => sent = <<>> /\ (pc = "done" => ret = -1)
        /\ gen = "GEN5" =>
               \A i \in 1..Len(sent) : sent[i].sub_cmd \in Gen5EqSubCmds
        /\ gen = "GEN4" =>
               \A i \in 1..Len(sent) : sent[i].sub_cmd \in Gen4EqSubCmds

C11_Witness ==
    /\ Done("port_eq_tx_fslf")
    /\ OtherGen
    /\ res # Null
    /\ arg.end = "LOCAL"
    /\ arg.link = "CURRENT"
    /\ ret = -1

EyeOps == {"eye_set_mode", "eye_start", "eye_fetch", "eye_cancel",
           "gen5_eye_run", "gen5_eye_status", "gen5_eye_read"}

\* the call ended in an error: a nonzero result, and for eye_fetch, whose
\* result on success is the pixel count, a request or status error
EyeOpFailed == IF op = "eye_fetch" THEN loc.ret # 0 ELSE ret # 0

\* C13: every eye-capture operation (set_mode, start, fetch, cancel, Gen5
\* run, status, read) called on a handle that is neither Gen4 nor Gen5 fails.
C13_EyeOtherGenFails ==
    (pc = "done" /\ op \in EyeOps /\ OtherGen) => EyeOpFailed

\* C14: in every equalization operation, Gen4 and Gen5 strategy, a null res
\* makes the call fail with EINVAL (return -1, errno set to -EINVAL as the
\* code writes it) and no request is sent during the call.
C14_NullResRejected ==
    (op \in EqOps /\ ~OtherGen /\ res = Null) =>
        /\ sent = <<>>
        /\ pc = "done" => ret = -1 /\ errno = -EINVAL

C14_Witness ==
    /\ Done("port_eq_tx_table")
    /\ gen = "GEN5"
    /\ res = Null
    /\ arg.link = "CURRENT"
    /\ ret = -1

\* C15: get_tx_coefficients and get_tx_fslf called with an end that is
\* neither Local nor FarEnd return an error on Gen4 and on Gen5 handles and
\* send no request; success is never reported.
C15_BadEndRejected ==
    (op \in {"port_eq_tx_coeff", "port_eq_tx_fslf"} /\ ~OtherGen
       /\ arg.end \notin {"LOCAL", "FAR_END"}) =>
        /\ sent = <<>>
        /\ pc = "done" => ret # 0

\* C16: every equalization operation and both receiver dumps called with a
\* link that is neither Current nor Previous (the other arguments being
\* valid) fail and send no request, on Gen4 and on Gen5 handles: the link is
\* never taken for Current or for Previous.
C16_BadLinkRejected ==
    (\/ op \in EqOps /\ ~OtherGen
     \/ op \in RcvrOps) =>
        ((res # Null /\ arg.link \notin {"CURRENT", "PREVIOUS"}
            /\ (op \in {"port_eq_tx_coeff", "port_eq_tx_fslf"} =>
                    arg.end \in {"LOCAL", "FAR_END"})) =>
            /\ sent = <<>>
            /\ pc = "done" => ret # 0)

\* C17: a successful get_tx_coefficients (Gen4, Gen5 local, Gen5 far end)
\* sets lane_cnt to the count field of the device's response plus 1 and
\* copies the cursor pairs of the response at the indices below lane_cnt, in
\* place and in order; the other entries of res->cursors are not written.
C17_CoeffCountAndCopy ==
    (Done("port_eq_tx_coeff") /\ ret = 0
       /\ arg.end \in {"LOCAL", "FAR_END"}) =>
        /\ Len(rcvd) = 1
        /\ res.lane_cnt = rcvd[1].out.count + 1
        /\ \A i \in LaneIdx :
               res.cursors[i] = IF i <= rcvd[1].out.count
                                  THEN rcvd[1].out.cursors[i]
                                  ELSE Untouched

C17_Witness ==
    /\ Done("port_eq_tx_coeff")
    /\ ret = 0
    /\ gen = "GEN5"
    /\ arg.end = "FAR_END"
    /\ rcvd[1].out.count = 0
    /\ res.lane_cnt = 1
    /\ res.cursors[0] = [pre |-> 7, post |-> 0]
    /\ res.cursors[1] = Untouched

\* C18: lane_cnt of get_tx_coefficients and step_cnt of get_tx_table are at
\* most the capacity of the arrays, for every count the device can report,
\* and the copy loop touches no index at or beyond that capacity.
C18_CountClamped ==
    (pc = "done" /\ ret = 0 /\ sent # <<>>) =>
        /\ op = "port_eq_tx_coeff" =>
               res.lane_cnt <= MaxLanes /\ res.beyond = {}
        /\ op = "port_eq_tx_table" =>
               res.step_cnt <= MaxSteps /\ res.beyond = {}

---------------------------------------------------------------------------
(* LTSSM log *)

\* C12: switchtec_diag_ltssm_log on a handle that is neither Gen4 nor Gen5
\* fails (-EINVAL) and sends no request at all, so no freeze request either.
C12_LtssmOtherGen ==
    (op = "ltssm_log" /\ OtherGen) =>
        /\ sent = <<>>
        /\ pc = "done" => ret = -EINVAL

C12_Witness ==
    /\ Done("ltssm_log")
    /\ OtherGen
    /\ arg.log_count = 64
    /\ ret = -EINVAL
    /\ sent = <<>>

\* the kinds of request of one LTSSM log retrieval
IsFreeze(r) == r.sub_cmd = SubCmdFreeze /\ r.freeze = 1
IsUnfreeze(r) == r.sub_cmd = SubCmdFreeze /\ r.freeze = 0
IsStatus(r) == r.sub_cmd = (IF gen = "GEN5" THEN SubCmdStatusGen5
                            ELSE SubCmdStatusGen4)
IsDump(r) == r.sub_cmd = (IF gen = "GEN5" THEN SubCmdDumpGen5
                          ELSE SubCmdDumpGen4)

\* C19: in every run of switchtec_diag_ltssm_log, Gen4 and Gen5, the requests
\* are in the order freeze, status query, dump chunks by increasing start
\* index, unfreeze: the first request is the freeze, the second is the status
\* query and is sent only after the freeze succeeded, dumps and the unfreeze
\* come only after the status query succeeded, and nothing follows the
\* unfreeze.
C19_LtssmOrder ==
    op = "ltssm_log" =>
        /\ Len(rcvd) = Len(sent)
        /\ \A i \in 1..Len(sent) :
               /\ sent[i].cmd = "MRPC_DIAG_PORT_LTSSM_LOG"
               /\ sent[i].port = arg.port
               /\ i = 1 => IsFreeze(sent[i])
               /\ i = 2 => IsStatus(sent[i]) /\ rcvd[1].ret = 0
               /\ i > 2 => /\ IsDump(sent[i]) \/ IsUnfreeze(sent[i])
                           /\ rcvd[1].ret = 0
                           /\ rcvd[2].ret = 0
               /\ IsUnfreeze(sent[i]) => i = Len(sent) /\ pc = "done"
        /\ \A i, j \in 1..Len(sent) :
               (i < j /\ IsDump(sent[i]) /\ IsDump(sent[j])) =>
                   sent[i].log_index < sent[j].log_index

C19_Witness ==
    /\ Done("ltssm_log")
    /\ gen = "GEN5"
    /\ ret = 0
    /\ Len(sent) = 6
    /\ IsDump(sent[3]) /\ IsDump(sent[4]) /\ IsDump(sent[5])
    /\ sent[5].log_index = 126
    /\ IsUnfreeze(sent[6])

LogUntouched == \A i \in DOMAIN log_data : log_data[i] = Untouched

\* C20: when the freeze request of switchtec_diag_ltssm_log fails, or the
\* status query after it, the call ends with that request's error: it was
\* the last request (no dump, no unfreeze) and log_data is not written.
C20_LtssmAbort ==
    (op = "ltssm_log" /\ ~OtherGen) =>
        \A k \in {1, 2} :
            (Len(rcvd) >= k /\ rcvd[k].ret # 0) =>
                /\ pc = "done"
                /\ ret = rcvd[k].ret
                /\ Len(sent) = k
                /\ LogUntouched

C20_Witness ==
    /\ Done("ltssm_log")
    /\ gen = "GEN4"
    /\ arg.log_count = 130
    /\ Len(sent) = 2
    /\ rcvd[1].ret = 0
    /\ rcvd[2].ret = -EIO
    /\ ret = -EIO
    /\ LogUntouched

\* the dump requests of the call so far, in the order sent
DumpsSent == SelectSeq(sent, IsDump)

RECURSIVE SumNoOfLogs(_)
SumNoOfLogs(s) ==
    IF s = <<>> THEN 0 ELSE Head(s).no_of_logs + SumNoOfLogs(Tail(s))

\* the status query was answered, and what it reported
StatusOk == Len(rcvd) >= 2 /\ rcvd[2].ret = 0
Reported == IF gen = "GEN5" THEN rcvd[2].out.trig_cnt ELSE rcvd[2].out.log_num

\* dump requests that failed
FailedDumps == {i \in 1..Len(sent) : IsDump(sent[i]) /\ rcvd[i].ret # 0}

\* the call is over and every dump request it made succeeded
DumpedAll == pc = "done" /\ StatusOk /\ FailedDumps = {}

\* C21: after the status query *log_count is the smaller of the caller's
\* log_count and the count the device reported, never above the caller's,
\* and the sizes of the dump requests of a call whose dumps all succeeded add
\* up to it; for every requested count, negative ones included.
C21_ClampAndTotal ==
    (op = "ltssm_log" /\ ~OtherGen /\ StatusOk) =>
        /\ log_count = (IF arg.log_count < Reported THEN arg.log_count
                        ELSE Reported)
        /\ log_count <= arg.log_count
        /\ DumpedAll => SumNoOfLogs(DumpsSent) = log_count

\* C22: Gen4 with a clamped count n >= 0: the first dump request is index 0
\* with n entries when n <= 126 and with 126 otherwise, a second one exists
\* only when n > 126 and is index 126 with n - 126 entries, there is no
\* third, and a call whose dumps succeed sends exactly one or exactly two.
C22_Gen4Chunks ==
    (op = "ltssm_log" /\ gen = "GEN4" /\ StatusOk /\ log_count >= 0) =>
        LET d == DumpsSent
            n == log_count
        IN /\ Len(d) <= (IF n <= 126 THEN 1 ELSE 2)
           /\ Len(d) >= 1 =>
                  /\ d[1].log_index = 0
                  /\ d[1].no_of_logs = (IF n <= 126 THEN n ELSE 126)
           /\ Len(d) >= 2 =>
                  /\ d[2].log_index = 126
                  /\ d[2].no_of_logs = n - 126
           /\ DumpedAll => Len(d) = (IF n <= 126 THEN 1 ELSE 2)

C22_Witness ==
    /\ Done("ltssm_log")
    /\ gen = "GEN4"
    /\ arg.log_count = 200
    /\ log_count = 200
    /\ ret = 0
    /\ Len(DumpsSent) = 2
    /\ DumpsSent[1].no_of_logs = 126
    /\ DumpsSent[2].no_of_logs = 74

\* C23: every Gen4 dump request asks for at most 126 entries and its index
\* plus its size stays within the 256 entries of the response buffer, for
\* every count of the caller and of the device.
C23_Gen4DumpBounds ==
    (op = "ltssm_log" /\ gen = "GEN4") =>
        \A i \in 1..Len(sent) :
            IsDump(sent[i]) =>
                /\ sent[i].no_of_logs <= 126
                /\ sent[i].log_index + sent[i].no_of_logs <= 256

\* C24: Gen5 with a clamped count n: dump request k (from 0) starts at index
\* 63 * k and asks for 63 entries, or for the n - 63 * k that are left when
\* these are at most 63; when all succeed there are ceil(n / 63) of them,
\* their sizes add up to n, and log_data[0..n-1] holds the decoded entries
\* 0..n-1 of the device in order, the rest of log_data being untouched;
\* n = 0 sends no dump request.
C24_Gen5Chunks ==
    (op = "ltssm_log" /\ gen = "GEN5" /\ StatusOk) =>
        LET d == DumpsSent
            n == log_count
        IN /\ n = 0 => Len(d) = 0
           /\ \A k \in 1..Len(d) :
                  /\ d[k].log_index = 63 * (k - 1)
                  /\ d[k].no_of_logs =
                         (IF n - 63 * (k - 1) > 63 THEN 63
                          ELSE n - 63 * (k - 1))
           /\ (DumpedAll /\ n > 0) =>
                  /\ Len(d) = (n + 62) \div 63
                  /\ SumNoOfLogs(d) = n
                  /\ \A i \in DOMAIN log_data :
                         log_data[i] = (IF i < n
                                          THEN Gen5Decode(Gen5DevEntry(i))
                                          ELSE Untouched)

C24_Witness ==
    /\ Done("ltssm_log")
    /\ gen = "GEN5"
    /\ log_count = 130
    /\ DumpedAll
    /\ ret = 0
    /\ Len(DumpsSent) = 3
    /\ DumpsSent[1].no_of_logs = 63
    /\ DumpsSent[2].no_of_logs = 63
    /\ DumpsSent[3].no_of_logs = 4
    /\ log_data[129].timestamp = 1129

\* the unfreeze requests of the call so far
UnfreezesSent == SelectSeq(sent, IsUnfreeze)

\* C25: a call of switchtec_diag_ltssm_log whose dump requests all succeeded
\* ends with exactly one unfreeze request, sent last, and returns the status
\* of that request, whatever it is; Gen4 and Gen5.
C25_UnfreezeResult ==
    (op = "ltssm_log" /\ ~OtherGen /\ DumpedAll) =>
        /\ Len(UnfreezesSent) = 1
        /\ IsUnfreeze(Last(sent))
        /\ ret = Last(rcvd).ret

C25_Witness ==
    /\ Done("ltssm_log")
    /\ gen = "GEN4"
    /\ log_count = 64
    /\ DumpedAll
    /\ Len(sent) = 4
    /\ Last(rcvd).ret = -EIO
    /\ ret = -EIO

C27_DumpFailureSurfaces ==
    (op = "ltssm_log" /\ ~OtherGen /\ pc = "done" /\ FailedDumps # {}) =>
        ret # 0

\* major and minor of entry i of the device's log, unpacked from the record
\* as the device packs it
DevMajor(i) ==
    IF gen = "GEN5" THEN Gen5DevEntry(i).major
    ELSE (Gen4DevEntry(i).dw0 \div 128) % 16
DevMinor(i) ==
    IF gen = "GEN5" THEN Gen5DevEntry(i).minor
    ELSE (Gen4DevEntry(i).dw0 \div 8) % 16

\* the entries of log_data the call has decoded
Decoded == {i \in DOMAIN log_data : log_data[i] # Untouched}

\* C28 as stated: every decoded entry has link_state = (major << 8) | minor.
C28_LinkStateMajorHigh ==
    (op = "ltssm_log" /\ ~OtherGen) =>
        \A i \in Decoded :
            log_data[i].link_state = DevMajor(i) * 256 + DevMinor(i)

\* C28 amended: every decoded entry has link_state = major | (minor << 8),
\* major in the low byte and minor in the second, on Gen4 and on Gen5.
C28_LinkStateMinorHigh ==
    (op = "ltssm_log" /\ ~OtherGen) =>
        \A i \in Decoded :
            log_data[i].link_state = DevMajor(i) + DevMinor(i) * 256

C28_Witness ==
    /\ Done("ltssm_log")
    /\ gen = "GEN4"
    /\ 9 \in Decoded
    /\ DevMajor(9) = 2
    /\ DevMinor(9) = 9
    /\ log_data[9].link_state = 2306

---------------------------------------------------------------------------
(* Permission table and cross hair *)

\* C29: switchtec_diag_perm_table sends one request; when it succeeds, for
\* every id below MRPC_MAX_ID: with bit id mod 32 of word id / 32 of the
\* bitmap set, slot id is a copy of the static record when one is registered
\* for id, and has tag "UNKNOWN" and reserved = true when none is; with the
\* bit clear, slot id has no tag and no description.
C29_PermTable ==
    op = "perm_table" =>
        /\ Len(sent) <= 1
        /\ pc = "done" => Len(sent) = 1
        /\ (pc = "done" /\ ret = 0) =>
               \A id \in 0..MaxMrpcId :
                   LET set == (id % 32) \in rcvd[1].out.perms[id \div 32]
                       registered == arg.mrpc_table[id].tag # Null
                   IN /\ (set /\ registered) => res.table[id] = arg.mrpc_table[id]
                      /\ (set /\ ~registered) =>
                             /\ res.table[id].tag = [text |-> "UNKNOWN"]
                             /\ res.table[id].reserved = TRUE
                      /\ ~set =>
                             /\ res.table[id].tag = Null
                             /\ res.table[id].desc = Null

C29_Witness ==
    /\ Done("perm_table")
    /\ ret = 0
    /\ rcvd[1].out.perms[0] = {3}
    /\ rcvd[1].out.perms[1] = {1, 4}
    /\ arg.mrpc_table[3].tag = Null
    /\ res.table[3].tag = [text |-> "UNKNOWN"]
    /\ res.table[3].reserved = TRUE
    /\ res.table[4].tag = Null
    /\ arg.mrpc_table[33].tag # Null
    /\ res.table[33] = arg.mrpc_table[33]

\* the states of a lane record, by the payload they carry
CrossHairIdle == {0, 2}
CrossHairInProgress == {3, 20}
CrossHairDone == {21}
CrossHairError == {22}

\* C30: after a successful switchtec_diag_cross_hair_get every res.lanes[i] has the
\* state and lane_id of record i of the response and, by the state of that
\* record alone: nothing more for Nop and Waiting, x/y position for a scan
\* in progress, the six eye limits for Done, x/y position and prev_state for
\* Error; every other field of res.lanes[i] is zero.
C30_CrossHairPerRecord ==
    (op = "cross_hair_get" /\ pc = "done" /\ ret = 0) =>
        \A i \in 0..(arg.num_lanes - 1) :
            LET o == rcvd[1].out.lanes[i]
                r == res.lanes[i]
                pos == o.state \in CrossHairInProgress \cup CrossHairError
                lim == o.state \in CrossHairDone
                prev == o.state \in CrossHairError
            IN /\ r.state = o.state
               /\ r.lane_id = o.lane_id
               /\ r.x_pos = (IF pos THEN o.x_pos ELSE 0)
               /\ r.y_pos = (IF pos THEN o.y_pos ELSE 0)
               /\ r.eye_left_lim = (IF lim THEN o.eye_left_lim ELSE 0)
               /\ r.eye_right_lim = (IF lim THEN o.eye_right_lim ELSE 0)
               /\ r.eye_bot_left_lim = (IF lim THEN o.eye_bot_left_lim ELSE 0)
               /\ r.eye_bot_right_lim =
                      (IF lim THEN o.eye_bot_right_lim ELSE 0)
               /\ r.eye_top_left_lim = (IF lim THEN o.eye_top_left_lim ELSE 0)
               /\ r.eye_top_right_lim =
                      (IF lim THEN o.eye_top_right_lim ELSE 0)
               /\ r.prev_state = (IF prev THEN o.prev_state ELSE 0)

C30_Witness ==
    /\ Done("cross_hair_get")
    /\ ret = 0
    /\ arg.num_lanes = 2
    /\ res.lanes[0].state = 21
    /\ res.lanes[0].eye_left_lim = 11
    /\ res.lanes[0].x_pos = 0
    /\ res.lanes[1].state = 22
    /\ res.lanes[1].x_pos = 8
    /\ res.lanes[1].prev_state = 4
    /\ res.lanes[1].eye_left_lim = 0

---------------------------------------------------------------------------
(* Error propagation *)

\* the operations that are one request
SingleRequestOps ==
    DispatcherOps \cup {"cross_hair_get", "rcvr_obj", "rcvr_ext",
                        "perm_table"}

\* the arguments pass the tests that precede the request
ArgsAccepted ==
    op \in RcvrOps => (res # Null /\ arg.link \in {"CURRENT", "PREVIOUS"})

\* C31: every single-request dispatcher operation (cross hair, pattern
\* generator, monitor and inject, refclk, AER, receiver object and extended
\* dump, permission table) sends exactly one request and returns what the
\* command channel returned for it, unchanged: the transport's error value
\* or the device's status.
C31_OutcomeUnchanged ==
    op \in SingleRequestOps =>
        /\ Len(sent) <= 1
        /\ (pc = "done" /\ ArgsAccepted) =>
               /\ Len(sent) = 1
               /\ ret = rcvd[1].ret

\* the largest number of requests of a call that does not retry
StepLimit ==
    CASE op \in {"loopback_set", "loopback_get"} -> 3
      [] op = "ltssm_log" ->
           3 + (IF gen = "GEN4" THEN 2
                ELSE IF arg.log_count <= 0 THEN 0
                ELSE (arg.log_count + 62) \div 63)
      [] OTHER -> 1

\* C32: apart from the busy retry of switchtec_diag_eye_fetch no operation
\* sends a request again: a request that failed (transport error or nonzero
\* status) is not followed by an equal request, and a call sends no more
\* requests than its steps; in eye_fetch every request that was followed by
\* another one had been answered busy.
C32_NoReissue ==
    /\ (op # "none" /\ op # "eye_fetch") =>
           /\ Len(sent) <= StepLimit
           /\ \A i, j \in 1..Len(sent) :
                  (i < j /\ rcvd[i].ret # 0) => sent[j] # sent[i]
    /\ op = "eye_fetch" =>
           \A i \in 1..(Len(sent) - 1) :
               rcvd[i].ret = 0 /\ rcvd[i].out.status = 1

C32_Witness ==
    /\ Done("ltssm_log")
    /\ gen = "GEN5"
    /\ log_count = 130
    /\ Len(sent) = 5
    /\ rcvd[4].ret = 1
    /\ sent[4].log_index = 63
    /\ rcvd[5].ret = 0

\* C33: in switchtec_diag_eye_fetch the index of every record the decode
\* loop reads (one per pixel it writes) is below the number of records of
\* the wire buffer, for every reported data_count and every pixel_cnt.
C33_FetchIndexInBuffer ==
    (op = "eye_fetch" /\ pc = "done") =>
        \A i \in DOMAIN pixels :
            pixels[i] # Untouched => i < Cardinality(DOMAIN rsp.data)

---------------------------------------------------------------------------
(* Gen5 eye capture: status and read *)

\* C34: a successful switchtec_gen5_diag_eye_read reports a phase count no
\* larger than the capacity of the response's ber_data array and writes no
\* more BER values than that, each one the response's 64-bit word over 2^48.
C34_BerWithinCapacity ==
    (Done("gen5_eye_read") /\ ret = 0) =>
        LET written == {i \in DOMAIN res.ber_data :
                            res.ber_data[i] # Untouched}
        IN /\ res.num_phases <= MaxPhases
           /\ Cardinality(written) <= MaxPhases
           /\ \A i \in written :
                  /\ i \in DOMAIN rsp.ber_data
                  /\ res.ber_data[i] = BerValue(le64toh(rsp.ber_data[i]))

\* C38: switchtec_gen5_diag_eye_status returns the channel's result, writes
\* *status from the response when the command succeeded and leaves *status
\* as it was when the command failed.
C38_StatusOnlyFromResponse ==
    Done("gen5_eye_status") =>
        /\ ret = rcvd[1].ret
        /\ ret = 0 => res.status = rcvd[1].out.status
        /\ ret # 0 => res = FreshStatus

---------------------------------------------------------------------------
(* LTSSM log: what a successful call leaves in log_data *)

\* C37: when switchtec_diag_ltssm_log returns 0, every entry of log_data
\* below *log_count was decoded from a dump response of that call.
C37_ZeroMeansDecoded ==
    (Done("ltssm_log") /\ ~OtherGen /\ ret = 0) =>
        \A i \in 0..(log_count - 1) :
            /\ i \in Decoded
            /\ \E k \in 1..Len(sent) :
                   /\ IsDump(sent[k])
                   /\ rcvd[k].ret = 0
                   /\ sent[k].log_index <= i
                   /\ i < sent[k].log_index + sent[k].no_of_logs

---------------------------------------------------------------------------
(* LTSSM log, Gen5: termination of the dump loop *)

\* the call is at the head of the Gen5 dump loop
InGen5Loop == pc = "ltssm_dump" /\ gen = "GEN5"

\* C35: every iteration of the Gen5 dump loop requests at least one entry
\* and no more than remain; an iteration whose request failed leaves the
\* loop, one that stays in the loop has strictly reduced the remaining
\* count, which stays positive; and every Gen5 call of
\* switchtec_diag_ltssm_log reaches its return.
C35_Gen5LoopTerminates ==
    /\ [][InGen5Loop =>
            /\ Len(sent') = Len(sent) + 1
            /\ IsDump(Last(sent'))
            /\ Last(sent').no_of_logs >= 1
            /\ Last(sent').no_of_logs <= loc.avail_log
            /\ Last(rcvd').ret # 0 => pc' # "ltssm_dump"
            /\ pc' = "ltssm_dump" =>
                   /\ loc'.avail_log < loc.avail_log
                   /\ loc'.avail_log > 0]_vars
    /\ (op = "ltssm_log" /\ gen = "GEN5") ~> (pc = "done")

C35_Witness ==
    /\ Done("ltssm_log")
    /\ gen = "GEN5"
    /\ log_count = 189
    /\ loc.avail_log = 63
    /\ Len(DumpsSent) = 3
    /\ FailedDumps = {}

---------------------------------------------------------------------------
(* switchtec_cmd on Windows *)

\* C39: in every round trip of switchtec_cmd, a failed ioctl gives -EIO and
\* leaves the caller's response buffer as it was; when the ioctl succeeded
\* the response is copied to the buffer and the device's status is the
\* return value, a nonzero status as well.
C39_WindowsCmd ==
    [][Len(rcvd') = Len(rcvd) + 1 =>
           LET r == Last(rcvd')
           IN /\ r.ret = -EIO => (~r.copied /\ rsp' = rsp)
              /\ ~r.copied => (r.ret < 0 /\ rsp' = rsp)
              /\ r.copied => (r.ret \in MrpcStatuses /\ r.out = rsp')]_vars

C39_Witness ==
    /\ Done("ltssm_log")
    /\ gen = "GEN5"
    /\ Len(rcvd) = 4
    /\ rcvd[2].ret = 0 /\ rcvd[2].copied /\ rcvd[2].out.trig_cnt = 1
    /\ rcvd[3].ret = 1 /\ rcvd[3].copied
    /\ rcvd[4].ret = -EIO /\ ~rcvd[4].copied
    /\ ret = -EIO

---------------------------------------------------------------------------
(* Two callers on one handle *)

\* the freeze and unfreeze requests the device carried out before request k
FreezesBefore(k) ==
    {j \in 1..(k - 1) :
        sent[j].req.sub_cmd = SubCmdFreeze /\ rcvd[j].ret = 0}

\* the log is frozen when request k arrives: the last freeze or unfreeze the
\* device carried out before it was a freeze
FrozenBefore(k) ==
    /\ FreezesBefore(k) # {}
    /\ LET j == CHOOSE m \in FreezesBefore(k) :
                    \A i \in FreezesBefore(k) : i <= m
       IN sent[j].req.freeze = 1

\* the dump requests that reached the device while the log was not frozen
DumpsWhileUnfrozen ==
    {k \in 1..Len(sent) : IsDump(sent[k].req) /\ ~FrozenBefore(k)}

\* C36: when the two callers serialize their calls externally, no dump
\* request reaches the device while the log is unfrozen; without
\* serialization one caller's unfreeze can arrive between the other's
\* freeze and one of its dump requests.
C36_SerializedDumpsFrozen ==
    arg.serialized => DumpsWhileUnfrozen = {}

C36_Witness ==
    /\ ~arg.serialized
    /\ \E i, j, k \in 1..Len(sent) :
           /\ i < j /\ j < k
           /\ sent[i].req.sub_cmd = SubCmdFreeze /\ sent[i].req.freeze = 1
           /\ rcvd[i].ret = 0
           /\ IsUnfreeze(sent[j].req) /\ rcvd[j].ret = 0
           /\ sent[j].caller # sent[i].caller
           /\ IsDump(sent[k].req) /\ sent[k].caller = sent[i].caller
           /\ k \in DumpsWhileUnfrozen

=============================================================================
